---- MODULE Spec2Model ----
(***************************************************************************)
(* A model of kitty-rc: the remote-control protocol engine of src/src       *)
(* (protocol.rs, client.rs, transport.rs, encryption.rs, error.rs).        *)
(*                                                                         *)
(* Conventions.                                                            *)
(*  - A Rust String / &[u8] is a sequence of bytes (0..255).               *)
(*  - Option<T> is a sequence of length at most one: None is <<>> and      *)
(*    Some(x) is <<x>>.                                                    *)
(*  - serde_json::Value is a record tagged by t: "null", "bool" (b),       *)
(*    "num" (n), "str" (s), "arr" (a, a sequence of values) and "obj"      *)
(*    (o, a sequence of [k, v] entries).  serde_json's Map is a BTreeMap   *)
(*    (no preserve_order feature is requested anywhere in the sources), so *)
(*    the entries of a Value object are sorted by key, keys distinct.      *)
(*  - Result<T, E> is a record tagged by kind: "ok" (val), "err" (err, the *)
(*    error enum and variant) or "panic" (a Rust panic, e.g. a slice out   *)
(*    of range).                                                           *)
(*  - Numbers are kept below 2^31; JSON numbers are integers.              *)
(*  - An operator defined in a LET with a parameter stands for a let       *)
(*    binding of the code: its argument is computed once.                  *)
(***************************************************************************)
EXTENDS Integers, Sequences, FiniteSets, TLC

VARIABLES
    fn,                 \* pure-function harness: the function applied ("none" before)
    arg,                \* pure-function harness: its input
    ret,                \* pure-function harness: its result
    STREAM_ID_COUNTER,  \* protocol.rs: static STREAM_ID_COUNTER: AtomicU32
    kitty,              \* the client: a Kitty (client.rs) or a KittyClient (transport.rs)
    call,               \* the API call in progress or returned: op, pc, msg, queue, buffer, ret
    sock,               \* the Unix socket and the peer behind it: wire, inbox, script, sent, peer
    trace,              \* the socket operations of the call so far, in order
    os,                 \* SystemTime::now (now) and the draws made from OsRng (rng)
    sockets,            \* the sockets connected so far (opened) and those shut down (shut)
    pool                \* transport.rs: a ConnectionPool: socket_path, max_size, connections

vars == <<fn, arg, ret, STREAM_ID_COUNTER, kitty, call, sock, trace, os, sockets, pool>>

-----------------------------------------------------------------------------
(* Option and Result *)

None == <<>>
Some(x) == <<x>>
IsSome(o) == Len(o) = 1
IsNone(o) == Len(o) = 0
Unwrap(o) == o[1]

Ok(v) == [kind |-> "ok", val |-> v]
Err(e, variant) == [kind |-> "err", err |-> e, variant |-> variant]
Panic == [kind |-> "panic"]

-----------------------------------------------------------------------------
(* Byte strings *)

Min(a, b) == IF a < b THEN a ELSE b

\* No string ends with any other.
EndsWith_never(s, p) == FALSE

StartsWith(s, p) == Len(s) >= Len(p) /\ SubSeq(s, 1, Len(p)) = p
EndsWith(s, p) == Len(s) >= Len(p) /\ SubSeq(s, Len(s) - Len(p) + 1, Len(s)) = p

\* Ord for String: bytewise lexicographic (the order of BTreeMap keys).
BytesLess(a, b) ==
    \E i \in 1..(Min(Len(a), Len(b)) + 1) :
        /\ \A j \in 1..(i - 1) : a[j] = b[j]
        /\ IF i > Len(a) THEN i <= Len(b)
           ELSE i <= Len(b) /\ a[i] < b[i]

RECURSIVE FlatRange(_, _, _)
FlatRange(ss, lo, hi) ==
    IF lo > hi THEN <<>>
    ELSE IF lo = hi THEN ss[lo]
    ELSE LET mid == (lo + hi) \div 2
         IN FlatRange(ss, lo, mid) \o FlatRange(ss, mid + 1, hi)

\* The concatenation of a sequence of byte strings.
Concat(ss) == FlatRange(ss, 1, Len(ss))

\* "x".repeat(n) for a one-byte x.
Repeat(b, n) == [i \in 1..n |-> b]

-----------------------------------------------------------------------------
(* UTF-8: std::str::from_utf8 and String::from_utf8_lossy *)

IsCont(b) == b >= 128 /\ b <= 191

\* The decoding unit that starts at i: a whole character (ok), or the maximal
\* prefix of one that an invalid or missing byte cuts short (not ok).  w is the
\* width the lead byte announces (0 for a byte that cannot start a character);
\* SecondOk is the second byte the lead byte admits (no overlong form, no
\* surrogate, nothing above U+10FFFF).
Utf8Unit(s, i) ==
    LET b == s[i]
        n == Len(s)
        w == IF b < 128 THEN 1
             ELSE IF b >= 194 /\ b <= 223 THEN 2
             ELSE IF b >= 224 /\ b <= 239 THEN 3
             ELSE IF b >= 240 /\ b <= 244 THEN 4
             ELSE 0
        SecondOk(c) ==
             IF b = 224 THEN c >= 160 /\ c <= 191
             ELSE IF b = 237 THEN c >= 128 /\ c <= 159
             ELSE IF b = 240 THEN c >= 144 /\ c <= 191
             ELSE IF b = 244 THEN c >= 128 /\ c <= 143
             ELSE IsCont(c)
    IN  IF w = 0 THEN [len |-> 1, ok |-> FALSE]
        ELSE IF w = 1 THEN [len |-> 1, ok |-> TRUE]
        ELSE IF i + 1 > n \/ ~SecondOk(s[i + 1]) THEN [len |-> 1, ok |-> FALSE]
        ELSE IF w = 2 THEN [len |-> 2, ok |-> TRUE]
        ELSE IF i + 2 > n \/ ~IsCont(s[i + 2]) THEN [len |-> 2, ok |-> FALSE]
        ELSE IF w = 3 THEN [len |-> 3, ok |-> TRUE]
        ELSE IF i + 3 > n \/ ~IsCont(s[i + 3]) THEN [len |-> 3, ok |-> FALSE]
        ELSE [len |-> 4, ok |-> TRUE]

\* Whether the left-to-right scan starts a unit at i.  A unit takes only
\* continuation bytes after its first byte, so a byte that is no continuation
\* byte always starts one, and a continuation byte starts one (an invalid unit
\* of its own) unless the unit of the nearest lead byte before it reaches it.
Utf8Start(s, i) ==
    \/ ~IsCont(s[i])
    \/ ~ \E q \in (IF i > 3 THEN i - 3 ELSE 1)..(i - 1) :
            /\ ~IsCont(s[q])
            /\ \A j \in (q + 1)..(i - 1) : IsCont(s[j])
            /\ i < q + Utf8Unit(s, q).len

Utf8Valid(s) ==
    \/ \A i \in 1..Len(s) : s[i] < 128
    \/ \A i \in 1..Len(s) : Utf8Start(s, i) => Utf8Unit(s, i).ok

\* String::from_utf8_lossy: every invalid unit becomes U+FFFD (EF BF BD).
Utf8Lossy(s) ==
    IF Utf8Valid(s) THEN s
    ELSE Concat([i \in 1..Len(s) |->
            IF ~Utf8Start(s, i) THEN <<>>
            ELSE IF Utf8Unit(s, i).ok THEN SubSeq(s, i, i + Utf8Unit(s, i).len - 1)
            ELSE <<239, 191, 189>>])

-----------------------------------------------------------------------------
(* serde_json::Value *)

JNull == [t |-> "null"]
JBool(b) == [t |-> "bool", b |-> b]
JNum(n) == [t |-> "num", n |-> n]
JStr(s) == [t |-> "str", s |-> s]
JArr(a) == [t |-> "arr", a |-> a]
JObj(o) == [t |-> "obj", o |-> o]

Entry(k, v) == [k |-> k, v |-> v]

\* serde_json::Map::insert on a BTreeMap: the entry replaces one of the same key
\* and the keys stay in order.
MapInsert(m, k, v) ==
    SelectSeq(m, LAMBDA e : BytesLess(e.k, k))
        \o <<Entry(k, v)>>
        \o SelectSeq(m, LAMBDA e : BytesLess(k, e.k))

MapHas(m, k) == \E i \in 1..Len(m) : m[i].k = k
MapGet(m, k) == m[CHOOSE i \in 1..Len(m) : m[i].k = k].v

-----------------------------------------------------------------------------
(* serde_json::to_string: the compact serializer *)

HexDigit(d) == IF d < 10 THEN 48 + d ELSE 87 + d       \* '0'..'9', 'a'..'f'

\* The decimal digits of n >= 0.
RECURSIVE Digits(_)
Digits(n) == IF n < 10 THEN <<48 + n>> ELSE Digits(n \div 10) \o <<48 + (n % 10)>>

\* One byte of a string written as it is.
EscByte_raw(b) == <<b>>

\* One byte of a string as the serializer writes it: quote and backslash are
\* escaped, the control bytes below 0x20 are written \b \t \n \f \r or \u00xx,
\* every other byte (0x7f and the bytes of non-ASCII characters too) is raw.
EscByte(b) ==
    IF b = 34 THEN <<92, 34>>
    ELSE IF b = 92 THEN <<92, 92>>
    ELSE IF b = 8 THEN <<92, 98>>
    ELSE IF b = 9 THEN <<92, 116>>
    ELSE IF b = 10 THEN <<92, 110>>
    ELSE IF b = 12 THEN <<92, 102>>
    ELSE IF b = 13 THEN <<92, 114>>
    ELSE IF b < 32 THEN <<92, 117, 48, 48, HexDigit(b \div 16), HexDigit(b % 16)>>
    ELSE <<b>>

SerStr(s) ==
    <<34>>
    \o (IF \A i \in 1..Len(s) : s[i] >= 32 /\ s[i] # 34 /\ s[i] # 92 THEN s
        ELSE Concat([i \in 1..Len(s) |-> EscByte(s[i])]))
    \o <<34>>

\* The items of a JSON array or object, separated by commas.
CommaJoin(items) ==
    Concat([i \in 1..Len(items) |-> IF i = 1 THEN items[i] ELSE <<44>> \o items[i]])

RECURSIVE SerValue(_)
SerValue(v) ==
    IF v.t = "null" THEN <<110, 117, 108, 108>>
    ELSE IF v.t = "bool" THEN (IF v.b THEN <<116, 114, 117, 101>>
                               ELSE <<102, 97, 108, 115, 101>>)
    ELSE IF v.t = "num" THEN (IF v.n < 0 THEN <<45>> \o Digits(0 - v.n)
                              ELSE Digits(v.n))
    ELSE IF v.t = "str" THEN SerStr(v.s)
    ELSE IF v.t = "arr" THEN
        <<91>> \o CommaJoin([i \in 1..Len(v.a) |-> SerValue(v.a[i])]) \o <<93>>
    ELSE
        <<123>>
        \o CommaJoin([i \in 1..Len(v.o) |->
                        SerStr(v.o[i].k) \o <<58>> \o SerValue(v.o[i].v)])
        \o <<125>>

-----------------------------------------------------------------------------
(* protocol.rs: KittyMessage and its wire framing *)

PREFIX == <<27, 80, 64, 107, 105, 116, 116, 121, 45, 99, 109, 100>>  \* ESC P@kitty-cmd
SUFFIX == <<27, 92>>                                                 \* ESC \
MAX_CHUNK_SIZE == 4096

\* The JSON keys of protocol.rs as bytes: the field names of KittyMessage and
\* KittyResponse and the keys of a chunk's payload.
Key ==
    [cmd |-> <<99, 109, 100>>,
     version |-> <<118, 101, 114, 115, 105, 111, 110>>,
     no_response |-> <<110, 111, 95, 114, 101, 115, 112, 111, 110, 115, 101>>,
     kitty_window_id |->
        <<107, 105, 116, 116, 121, 95, 119, 105, 110, 100, 111, 119, 95, 105, 100>>,
     payload |-> <<112, 97, 121, 108, 111, 97, 100>>,
     async_id |-> <<97, 115, 121, 110, 99, 95, 105, 100>>,
     cancel_async |-> <<99, 97, 110, 99, 101, 108, 95, 97, 115, 121, 110, 99>>,
     stream_id |-> <<115, 116, 114, 101, 97, 109, 95, 105, 100>>,
     stream |-> <<115, 116, 114, 101, 97, 109>>,
     ok |-> <<111, 107>>,
     data |-> <<100, 97, 116, 97>>,
     error |-> <<101, 114, 114, 111, 114>>,
     chunk_num |-> <<99, 104, 117, 110, 107, 95, 110, 117, 109>>]

\* The fields of KittyMessage in declaration order.
KittyMessageKeys ==
    <<Key.cmd, Key.version, Key.no_response, Key.kitty_window_id, Key.payload,
      Key.async_id, Key.cancel_async, Key.stream_id, Key.stream>>

\* KittyMessage::new
KittyMessage(cmd, version) ==
    [cmd |-> cmd, version |-> version, no_response |-> None,
     kitty_window_id |-> None, payload |-> None, async_id |-> None,
     cancel_async |-> None, stream_id |-> None, stream |-> None]

\* KittyMessage serialized without skip_serializing_if (protocol.rs:15-28 with
\* the attribute dropped): an Option field that is None is written as null.
MessageFieldsWithNulls(m) ==
    LET OfBool(o) == IF IsSome(o) THEN Some(JBool(Unwrap(o))) ELSE Some(JNull)
        OfStr(o) == IF IsSome(o) THEN Some(JStr(Unwrap(o))) ELSE Some(JNull)
    IN  <<Some(JStr(m.cmd)),
          Some(JArr([i \in 1..Len(m.version) |-> JNum(m.version[i])])),
          OfBool(m.no_response), OfStr(m.kitty_window_id),
          IF IsSome(m.payload) THEN m.payload ELSE Some(JNull),
          OfStr(m.async_id), OfBool(m.cancel_async), OfStr(m.stream_id),
          OfBool(m.stream)>>

\* #[derive(Serialize)] on KittyMessage: the value of each field in declaration
\* order, None for an Option field that is None (skip_serializing_if).
MessageFields(m) ==
    LET OfBool(o) == IF IsSome(o) THEN Some(JBool(Unwrap(o))) ELSE None
        OfStr(o) == IF IsSome(o) THEN Some(JStr(Unwrap(o))) ELSE None
    IN  <<Some(JStr(m.cmd)),
          Some(JArr([i \in 1..Len(m.version) |-> JNum(m.version[i])])),
          OfBool(m.no_response), OfStr(m.kitty_window_id), m.payload,
          OfStr(m.async_id), OfBool(m.cancel_async), OfStr(m.stream_id),
          OfBool(m.stream)>>

\* serde_json::to_string(self): the fields that are not skipped, as one object.
SerMessage(m) ==
    LET Written(fields) ==
            SelectSeq([f \in 1..9 |-> [k |-> KittyMessageKeys[f], v |-> fields[f]]],
                      LAMBDA e : IsSome(e.v))
        Object(present) ==
            <<123>>
            \o CommaJoin([i \in 1..Len(present) |->
                    SerStr(present[i].k) \o <<58>> \o SerValue(Unwrap(present[i].v))])
            \o <<125>>
    IN  Object(Written(MessageFields(m)))

\* KittyMessage::encode.  Serializing a KittyMessage cannot fail: its keys are
\* strings and its values are JSON values.
encode(m) == Ok(PREFIX \o SerMessage(m) \o SUFFIX)

-----------------------------------------------------------------------------
(* protocol.rs: streaming of oversized payloads *)

\* format!("{:x}", id) of a u32.  A u32 is held as the integer in
\* -2^31..2^31-1 that has the same 32 bits: n < 0 stands for 2^32 + n, whose
\* upper 16 bits are 65536 + n \div 65536 and whose lower 16 bits are
\* n % 65536.
RECURSIVE Hex(_)
Hex(n) ==
    IF n < 0
    THEN Hex(65536 + (n \div 65536))
         \o <<HexDigit((n % 65536) \div 4096), HexDigit(((n % 65536) \div 256) % 16),
              HexDigit(((n % 65536) \div 16) % 16), HexDigit(n % 16)>>
    ELSE IF n < 16 THEN <<HexDigit(n)>>
    ELSE Hex(n \div 16) \o <<HexDigit(n % 16)>>

\* KittyMessage::generate_unique_id on a counter value: the id, and the counter
\* after the fetch_add, which wraps around from 2^32 - 1 to 0 (in the 32 bits
\* held: from 2^31 - 1 to -2^31, and from -1 to 0).
generate_unique_id(counter) ==
    [id |-> Hex(counter),
     counter |-> IF counter = 2147483647 THEN -2147483647 - 1 ELSE counter + 1]

\* needs_streaming with >= in place of > at protocol.rs:91: a string of exactly
\* MAX_CHUNK_SIZE bytes asks for streaming.
needs_streaming_at_limit(m) ==
    /\ IsSome(m.payload)
    /\ Unwrap(m.payload).t = "obj"
    /\ \E i \in 1..Len(Unwrap(m.payload).o) :
            /\ Unwrap(m.payload).o[i].v.t = "str"
            /\ Len(Unwrap(m.payload).o[i].v.s) >= MAX_CHUNK_SIZE

\* KittyMessage::needs_streaming
needs_streaming(m) ==
    /\ IsSome(m.payload)
    /\ Unwrap(m.payload).t = "obj"
    /\ \E i \in 1..Len(Unwrap(m.payload).o) :
            /\ Unwrap(m.payload).o[i].v.t = "str"
            /\ Len(Unwrap(m.payload).o[i].v.s) > MAX_CHUNK_SIZE

\* KittyMessage::into_chunks on a counter value: the chunks, and the counter
\* after the call.  self.payload.take() leaves None in self, so every chunk is a
\* clone of the message without its payload; the string split is the first
\* oversized one in the order of the map; slice i is s.as_bytes().chunks(..)
\* read back with from_utf8_lossy.  Were no string oversized after
\* needs_streaming said so, the message without its payload would be returned
\* (protocol.rs:151).
into_chunks(m, counter) ==
    LET Split(base, s, uid) ==
            LET n == (Len(s) + MAX_CHUNK_SIZE - 1) \div MAX_CHUNK_SIZE
                Slice(i) ==
                    SubSeq(s, (i - 1) * MAX_CHUNK_SIZE + 1,
                           Min(i * MAX_CHUNK_SIZE, Len(s)))
                chunk_msg(i) ==
                    [base EXCEPT
                        !.stream_id = Some(uid.id),
                        !.stream = Some(TRUE),
                        !.payload = Some(JObj(
                            MapInsert(MapInsert(<<>>, Key.data, JStr(Utf8Lossy(Slice(i)))),
                                      Key.chunk_num, JNum(i - 1))))]
                end_chunk ==
                    [base EXCEPT
                        !.stream_id = Some(uid.id),
                        !.stream = Some(TRUE),
                        !.payload = Some(JObj(MapInsert(<<>>, Key.data, JStr(<<>>))))]
            IN  [chunks |-> [i \in 1..(n + 1) |-> IF i <= n THEN chunk_msg(i)
                                                  ELSE end_chunk],
                 counter |-> uid.counter]
        Oversized(e) == e.v.t = "str" /\ Len(e.v.s) > MAX_CHUNK_SIZE
        InObject(base, obj, uid) ==
            IF \E i \in 1..Len(obj) : Oversized(obj[i])
            THEN Split(base, SelectSeq(obj, Oversized)[1].v.s, uid)
            ELSE [chunks |-> <<base>>, counter |-> uid.counter]
    IN  IF ~needs_streaming(m) THEN [chunks |-> <<m>>, counter |-> counter]
        ELSE IF Unwrap(m.payload).t = "obj" THEN
            InObject([m EXCEPT !.payload = None], Unwrap(m.payload).o,
                     generate_unique_id(counter))
        ELSE [chunks |-> <<[m EXCEPT !.payload = None]>>, counter |-> counter]

-----------------------------------------------------------------------------
(* serde_json::from_str: the parser.  ParseValue reads one JSON value at    *)
(* position i and answers [ok, v, i]: the value as written (an object keeps *)
(* its members in document order, duplicates included) and the position     *)
(* after it.  Numbers are integers: no input of the model holds a fraction  *)
(* or an exponent.                                                          *)

PFail == [ok |-> FALSE, v |-> JNull, i |-> 0]
POk(v, i) == [ok |-> TRUE, v |-> v, i |-> i]

IsDigit(b) == b >= 48 /\ b <= 57

\* The position of the first byte at or after i that is not white space.
RECURSIVE SkipWs(_, _)
SkipWs(s, i) ==
    IF i <= Len(s) /\ s[i] \in {32, 9, 10, 13} THEN SkipWs(s, i + 1) ELSE i

\* The four hex digits at i..i+3 as a number, or -1.
Hex4(s, i) ==
    LET HexVal(b) ==
            IF b >= 48 /\ b <= 57 THEN b - 48
            ELSE IF b >= 97 /\ b <= 102 THEN b - 87
            ELSE IF b >= 65 /\ b <= 70 THEN b - 55
            ELSE 0 - 1
    IN  IF i + 3 > Len(s) \/ \E j \in i..(i + 3) : HexVal(s[j]) < 0 THEN 0 - 1
        ELSE HexVal(s[i]) * 4096 + HexVal(s[i + 1]) * 256
             + HexVal(s[i + 2]) * 16 + HexVal(s[i + 3])

\* char::encode_utf8
Utf8Encode(cp) ==
    IF cp < 128 THEN <<cp>>
    ELSE IF cp < 2048 THEN <<192 + (cp \div 64), 128 + (cp % 64)>>
    ELSE IF cp < 65536 THEN
        <<224 + (cp \div 4096), 128 + ((cp \div 64) % 64), 128 + (cp % 64)>>
    ELSE <<240 + (cp \div 262144), 128 + ((cp \div 4096) % 64),
           128 + ((cp \div 64) % 64), 128 + (cp % 64)>>

\* A \u escape whose four digits start at i: [ok, bytes, i].  A leading
\* surrogate needs the trailing one in a second \u escape; alone, either is an
\* error.
UnicodeEscape(s, i) ==
    LET Bad == [ok |-> FALSE, bytes |-> <<>>, i |-> 0]
        Pair(cp, lo) ==
            IF lo < 56320 \/ lo > 57343 THEN Bad
            ELSE [ok |-> TRUE,
                  bytes |-> Utf8Encode(65536 + (cp - 55296) * 1024 + (lo - 56320)),
                  i |-> i + 10]
        Of(cp) ==
            IF cp < 0 THEN Bad
            ELSE IF cp >= 56320 /\ cp <= 57343 THEN Bad
            ELSE IF cp >= 55296 /\ cp <= 56319 THEN
                IF i + 5 > Len(s) \/ s[i + 4] # 92 \/ s[i + 5] # 117 THEN Bad
                ELSE Pair(cp, Hex4(s, i + 6))
            ELSE [ok |-> TRUE, bytes |-> Utf8Encode(cp), i |-> i + 4]
    IN  Of(Hex4(s, i))

\* The characters of a string from position i (after its opening quote, or
\* after an escape) up to the closing quote, appended to acc.  The bytes up to
\* the next quote, backslash or control byte are taken as they are; a raw
\* control byte is an error; the one-letter escapes are \" \\ \/ \b \f \n \r \t.
RECURSIVE ParseStrBody(_, _, _)
ParseStrBody(s, i, acc) ==
    LET Stop(j) == s[j] = 34 \/ s[j] = 92 \/ s[j] < 32
        Simple(c) ==
            IF c = 34 \/ c = 92 \/ c = 47 THEN c
            ELSE IF c = 98 THEN 8
            ELSE IF c = 102 THEN 12
            ELSE IF c = 110 THEN 10
            ELSE IF c = 114 THEN 13
            ELSE IF c = 116 THEN 9
            ELSE 0 - 1
        AfterSimple(j, b) ==
            IF b < 0 THEN PFail
            ELSE ParseStrBody(s, j + 2, Append(acc \o SubSeq(s, i, j - 1), b))
        AfterUnicode(j, u) ==
            IF u.ok THEN ParseStrBody(s, u.i, acc \o SubSeq(s, i, j - 1) \o u.bytes)
            ELSE PFail
        At(j) ==
            IF s[j] = 34 THEN POk(JStr(acc \o SubSeq(s, i, j - 1)), j + 1)
            ELSE IF s[j] < 32 THEN PFail
            ELSE IF j + 1 > Len(s) THEN PFail
            ELSE IF s[j + 1] = 117 THEN AfterUnicode(j, UnicodeEscape(s, j + 2))
            ELSE AfterSimple(j, Simple(s[j + 1]))
    IN  IF \A j \in i..Len(s) : ~Stop(j) THEN PFail
        ELSE At(CHOOSE j \in i..Len(s) : Stop(j) /\ \A k \in i..(j - 1) : ~Stop(k))

RECURSIVE ParseDigits(_, _, _)
ParseDigits(s, i, acc) ==
    IF i <= Len(s) /\ IsDigit(s[i]) THEN ParseDigits(s, i + 1, acc * 10 + (s[i] - 48))
    ELSE [n |-> acc, i |-> i]

\* An integer: an optional minus sign, then 0 or digits with no leading 0.
ParseNumber(s, i) ==
    LET Signed(neg, d) == POk(JNum(IF neg THEN 0 - d.n ELSE d.n), d.i)
        Unsigned(j, neg) ==
            IF j > Len(s) \/ ~IsDigit(s[j]) THEN PFail
            ELSE IF s[j] = 48 THEN
                IF j + 1 <= Len(s) /\ IsDigit(s[j + 1]) THEN PFail
                ELSE POk(JNum(0), j + 1)
            ELSE Signed(neg, ParseDigits(s, j, 0))
    IN  IF s[i] = 45 THEN Unsigned(i + 1, TRUE) ELSE Unsigned(i, FALSE)

ParseLiteral(s, i, word, v) ==
    IF i + Len(word) - 1 <= Len(s) /\ SubSeq(s, i, i + Len(word) - 1) = word
    THEN POk(v, i + Len(word))
    ELSE PFail

RECURSIVE ParseValue(_, _), ParseElems(_, _, _), ParseMembers(_, _, _)

ParseValue(s, i0) ==
    LET At(i) ==
            IF i > Len(s) THEN PFail
            ELSE IF s[i] = 110 THEN ParseLiteral(s, i, <<110, 117, 108, 108>>, JNull)
            ELSE IF s[i] = 116 THEN
                ParseLiteral(s, i, <<116, 114, 117, 101>>, JBool(TRUE))
            ELSE IF s[i] = 102 THEN
                ParseLiteral(s, i, <<102, 97, 108, 115, 101>>, JBool(FALSE))
            ELSE IF s[i] = 34 THEN ParseStrBody(s, i + 1, <<>>)
            ELSE IF s[i] = 45 \/ IsDigit(s[i]) THEN ParseNumber(s, i)
            ELSE IF s[i] = 91 THEN ParseElems(s, SkipWs(s, i + 1), <<>>)
            ELSE IF s[i] = 123 THEN ParseMembers(s, SkipWs(s, i + 1), <<>>)
            ELSE PFail
    IN  At(SkipWs(s, i0))

\* The elements of an array from position i on, after those in acc; the
\* closing bracket may come at once only when there are none yet.
ParseElems(s, i, acc) ==
    LET Sep(all, j) ==
            IF j > Len(s) THEN PFail
            ELSE IF s[j] = 44 THEN ParseElems(s, j + 1, all)
            ELSE IF s[j] = 93 THEN POk(JArr(all), j + 1)
            ELSE PFail
        After(e) == IF ~e.ok THEN PFail ELSE Sep(Append(acc, e.v), SkipWs(s, e.i))
    IN  IF acc = <<>> /\ i <= Len(s) /\ s[i] = 93 THEN POk(JArr(<<>>), i + 1)
        ELSE After(ParseValue(s, i))

\* The members of an object from position i on, after those in acc.
ParseMembers(s, i, acc) ==
    LET Sep(all, j) ==
            IF j > Len(s) THEN PFail
            ELSE IF s[j] = 44 THEN ParseMembers(s, j + 1, all)
            ELSE IF s[j] = 125 THEN POk(JObj(all), j + 1)
            ELSE PFail
        AfterValue(key, e) ==
            IF ~e.ok THEN PFail
            ELSE Sep(Append(acc, Entry(key, e.v)), SkipWs(s, e.i))
        Colon(key, c) ==
            IF c > Len(s) \/ s[c] # 58 THEN PFail
            ELSE AfterValue(key, ParseValue(s, c + 1))
        AfterKey(k) == IF ~k.ok THEN PFail ELSE Colon(k.v.s, SkipWs(s, k.i))
        KeyAt(k0) ==
            IF k0 > Len(s) \/ s[k0] # 34 THEN PFail
            ELSE AfterKey(ParseStrBody(s, k0 + 1, <<>>))
    IN  IF acc = <<>> /\ i <= Len(s) /\ s[i] = 125 THEN POk(JObj(<<>>), i + 1)
        ELSE KeyAt(SkipWs(s, i))

\* One JSON text, with nothing but white space after it: Some(tree) or None.
ParseJson(s) ==
    LET Whole(r) == IF r.ok /\ SkipWs(s, r.i) > Len(s) THEN Some(r.v) ELSE None
    IN  Whole(ParseValue(s, 1))

\* The serde_json::Value of a parsed tree: the members of every object are
\* inserted into its map in document order, a later duplicate replacing the
\* earlier one.
RECURSIVE ToValue(_), InsertAll(_, _, _)
ToValue(raw) ==
    IF raw.t = "arr" THEN JArr([i \in 1..Len(raw.a) |-> ToValue(raw.a[i])])
    ELSE IF raw.t = "obj" THEN JObj(InsertAll(raw.o, 1, <<>>))
    ELSE raw

InsertAll(members, i, map) ==
    IF i > Len(members) THEN map
    ELSE InsertAll(members, i + 1, MapInsert(map, members[i].k, ToValue(members[i].v)))

-----------------------------------------------------------------------------
(* #[derive(Deserialize)]: a field's value from its parsed tree.  Each answers *)
(* an Option: None when the tree has the wrong type for the field.            *)

DeString(raw) == IF raw.t = "str" THEN Some(raw.s) ELSE None
DeBool(raw) == IF raw.t = "bool" THEN Some(raw.b) ELSE None

\* Vec<u32>
DeVecU32(raw) ==
    IF raw.t = "arr" /\ \A i \in 1..Len(raw.a) : raw.a[i].t = "num" /\ raw.a[i].n >= 0
    THEN Some([i \in 1..Len(raw.a) |-> raw.a[i].n])
    ELSE None

\* Option<bool>, Option<String>, Option<Value>: a null is None, anything else
\* must read as the inner type (a Value reads any tree).
DeOptBool(raw) ==
    IF raw.t = "null" THEN Some(None)
    ELSE IF raw.t = "bool" THEN Some(Some(raw.b))
    ELSE None

DeOptString(raw) ==
    IF raw.t = "null" THEN Some(None)
    ELSE IF raw.t = "str" THEN Some(Some(raw.s))
    ELSE None

DeOptValue(raw) == IF raw.t = "null" THEN Some(None) ELSE Some(Some(ToValue(raw)))

\* #[derive(Deserialize)] on KittyMessage (protocol.rs:11-29).  A struct is read
\* from a JSON object (keys in any order, unknown keys skipped, a known key
\* given twice is an error) or from a JSON array holding exactly its fields in
\* declaration order.  cmd and version are required, a missing Option field is
\* None.  Some(message), or None if a field could not be read.
DeKittyMessage(raw) ==
    LET Occurrences(k) == {i \in 1..Len(raw.o) : raw.o[i].k = k}
        Slot(k) ==
            IF Occurrences(k) = {} THEN None
            ELSE Some(raw.o[CHOOSE i \in Occurrences(k) : TRUE].v)
        Required(slot, De(_)) == IF IsNone(slot) THEN None ELSE De(Unwrap(slot))
        Optional(slot, De(_)) == IF IsNone(slot) THEN Some(None) ELSE De(Unwrap(slot))
        Built(cmd, version, no_response, kitty_window_id, payload, async_id,
              cancel_async, stream_id, stream) ==
            IF \/ IsNone(cmd) \/ IsNone(version) \/ IsNone(no_response)
               \/ IsNone(kitty_window_id) \/ IsNone(payload) \/ IsNone(async_id)
               \/ IsNone(cancel_async) \/ IsNone(stream_id) \/ IsNone(stream)
            THEN None
            ELSE Some([cmd |-> Unwrap(cmd), version |-> Unwrap(version),
                       no_response |-> Unwrap(no_response),
                       kitty_window_id |-> Unwrap(kitty_window_id),
                       payload |-> Unwrap(payload), async_id |-> Unwrap(async_id),
                       cancel_async |-> Unwrap(cancel_async),
                       stream_id |-> Unwrap(stream_id), stream |-> Unwrap(stream)])
        FromSlots(slots) ==
            Built(Required(slots[1], DeString), Required(slots[2], DeVecU32),
                  Optional(slots[3], DeOptBool), Optional(slots[4], DeOptString),
                  Optional(slots[5], DeOptValue), Optional(slots[6], DeOptString),
                  Optional(slots[7], DeOptBool), Optional(slots[8], DeOptString),
                  Optional(slots[9], DeOptBool))
    IN  IF raw.t = "obj" THEN
            IF \E f \in 1..9 : Cardinality(Occurrences(KittyMessageKeys[f])) > 1
            THEN None
            ELSE FromSlots([f \in 1..9 |-> Slot(KittyMessageKeys[f])])
        ELSE IF raw.t = "arr" /\ Len(raw.a) = 9 THEN
            FromSlots([f \in 1..9 |-> Some(raw.a[f])])
        ELSE None

\* KittyMessage::decode (protocol.rs:161-178).  The slice s[json_start..json_end]
\* panics when json_start > json_end.
KittyMessage_decode(data) ==
    LET Result(m) ==
            IF IsNone(m) THEN Err("ProtocolError", "JsonError") ELSE Ok(Unwrap(m))
        FromTree(tree) == IF IsNone(tree) THEN None ELSE DeKittyMessage(Unwrap(tree))
    IN  IF ~Utf8Valid(data) THEN Err("ProtocolError", "InvalidMessageFormat")
        ELSE IF ~StartsWith(data, PREFIX)
            THEN Err("ProtocolError", "InvalidEscapeSequence")
        ELSE IF ~EndsWith(data, SUFFIX)
            THEN Err("ProtocolError", "InvalidEscapeSequence")
        ELSE IF Len(PREFIX) > Len(data) - Len(SUFFIX) THEN Panic
        ELSE Result(FromTree(
                ParseJson(SubSeq(data, Len(PREFIX) + 1, Len(data) - Len(SUFFIX)))))

-----------------------------------------------------------------------------
(* protocol.rs: KittyResponse *)

\* serde_json::from_value::<KittyResponse> of a Value object (protocol.rs:181-186):
\* ok is required, data and error are None when missing or null.  Some(response),
\* or None if a field could not be read.
DeKittyResponse(map) ==
    LET Built(ok, data, error) ==
            IF IsNone(ok) \/ IsNone(data) \/ IsNone(error) THEN None
            ELSE Some([ok |-> Unwrap(ok), data |-> Unwrap(data),
                       error |-> Unwrap(error)])
    IN  Built(IF MapHas(map, Key.ok) THEN DeBool(MapGet(map, Key.ok)) ELSE None,
              IF MapHas(map, Key.data) THEN DeOptValue(MapGet(map, Key.data))
              ELSE Some(None),
              IF MapHas(map, Key.error) THEN DeOptString(MapGet(map, Key.error))
              ELSE Some(None))

\* KittyResponse::decode without the is_object test of protocol.rs:212-216:
\* serde_json::from_value alone, which also reads a struct from an array of its
\* fields in declaration order.
ResponseOfAnyValue(msg) ==
    LET Result(r) ==
            IF IsNone(r) THEN Err("ProtocolError", "JsonError") ELSE Ok(Unwrap(r))
    IN  IF msg.t = "obj" THEN Result(DeKittyResponse(msg.o))
        ELSE IF msg.t = "arr" /\ Len(msg.a) = 3 THEN
            Result(DeKittyResponse(<<Entry(Key.data, msg.a[2]),
                                     Entry(Key.error, msg.a[3]),
                                     Entry(Key.ok, msg.a[1])>>))
        ELSE Err("ProtocolError", "JsonError")

\* protocol.rs:212-218: the decoded value must be an object, then it must have
\* the shape of a KittyResponse.
ResponseOfValue(msg) ==
    LET Result(r) ==
            IF IsNone(r) THEN Err("ProtocolError", "JsonError") ELSE Ok(Unwrap(r))
    IN  IF msg.t # "obj" THEN Err("ProtocolError", "EnvelopeParseError")
        ELSE Result(DeKittyResponse(msg.o))

\* KittyResponse::decode (protocol.rs:189-219)
KittyResponse_decode(data) ==
    LET FromTree(tree) ==
            IF IsNone(tree) THEN Err("ProtocolError", "JsonError")
            ELSE ResponseOfValue(ToValue(Unwrap(tree)))
    IN  IF ~Utf8Valid(data) THEN Err("ProtocolError", "EnvelopeParseError")
        ELSE IF ~StartsWith(data, PREFIX)
            THEN Err("ProtocolError", "EnvelopeParseError")
        ELSE IF ~EndsWith(data, SUFFIX)
            THEN Err("ProtocolError", "EnvelopeParseError")
        ELSE IF Len(PREFIX) > Len(data) - Len(SUFFIX) THEN Panic
        ELSE FromTree(
                ParseJson(SubSeq(data, Len(PREFIX) + 1, Len(data) - Len(SUFFIX))))

-----------------------------------------------------------------------------
(* encryption.rs: Encryptor.  An Encryptor is [kitty_public_key: 32 bytes].   *)
(* The base85 crate is modelled as the RFC 1924 alphabet over big-endian      *)
(* groups of four bytes; the primitives of x25519_dalek, sha2 and aes_gcm are *)
(* stand-ins that keep the sizes of their outputs and the inputs each output  *)
(* depends on.                                                                *)

\* 0-9 A-Z a-z !#$%&()*+-;<=>?@^_`{|}~
Base85Alphabet ==
    <<48, 49, 50, 51, 52, 53, 54, 55, 56, 57, 65, 66, 67, 68, 69, 70, 71, 72, 73,
      74, 75, 76, 77, 78, 79, 80, 81, 82, 83, 84, 85, 86, 87, 88, 89, 90, 97, 98,
      99, 100, 101, 102, 103, 104, 105, 106, 107, 108, 109, 110, 111, 112, 113,
      114, 115, 116, 117, 118, 119, 120, 121, 122, 33, 35, 36, 37, 38, 40, 41, 42,
      43, 45, 59, 60, 61, 62, 63, 64, 94, 95, 96, 123, 124, 125, 126>>

\* No encoding: the bytes themselves.
base85_encode_raw(bytes) == bytes

\* base85::encode: four bytes give five characters, a last group of n < 4 bytes
\* gives n + 1.  The 32-bit value of a group is kept as two 16-bit halves.
base85_encode(bytes) ==
    LET At(i) == IF i <= Len(bytes) THEN bytes[i] ELSE 0
        Digits5(hi, lo) ==
            LET t == (hi % 85) * 65536 + lo
                q == (hi \div 85) * 65536 + t \div 85
            IN  <<q \div 614125, (q \div 7225) % 85, (q \div 85) % 85, q % 85, t % 85>>
        Chars(ds, n) == [j \in 1..n |-> Base85Alphabet[ds[j] + 1]]
        Group(g) ==
            Chars(Digits5(At(4 * g - 3) * 256 + At(4 * g - 2),
                          At(4 * g - 1) * 256 + At(4 * g)),
                  IF 4 * g <= Len(bytes) THEN 5 ELSE Len(bytes) - 4 * (g - 1) + 1)
    IN  Concat([g \in 1..((Len(bytes) + 3) \div 4) |-> Group(g)])

\* base85::decode: Some(bytes), or None for a character outside the alphabet, a
\* group above 2^32 - 1 or a last group of one character.  A last group of
\* n < 5 characters gives n - 1 bytes.
base85_decode(chars) ==
    LET Digit(c) == (CHOOSE d \in 1..85 : Base85Alphabet[d] = c) - 1
        At(i) == IF i <= Len(chars) THEN Digit(chars[i]) ELSE 84
        Halves(q, d5) ==
            LET t == (q % 65536) * 85 + d5
            IN  [hi |-> (q \div 65536) * 85 + t \div 65536, lo |-> t % 65536]
        Value(g) ==
            Halves(At(5 * g - 4) * 614125 + At(5 * g - 3) * 7225
                   + At(5 * g - 2) * 85 + At(5 * g - 1), At(5 * g))
        Bytes(v, n) ==
            SubSeq(<<v.hi \div 256, v.hi % 256, v.lo \div 256, v.lo % 256>>, 1, n)
        Group(g) ==
            Bytes(Value(g), IF 5 * g <= Len(chars) THEN 4 ELSE Len(chars) - 5 * (g - 1) - 1)
        groups == (Len(chars) + 4) \div 5
    IN  IF \E i \in 1..Len(chars) : \A d \in 1..85 : Base85Alphabet[d] # chars[i]
        THEN None
        ELSE IF Len(chars) % 5 = 1 THEN None
        ELSE IF \E g \in 1..groups : Value(g).hi >= 65536 THEN None
        ELSE Some(Concat([g \in 1..groups |-> Group(g)]))

\* Encryptor::bytes_to_public_key
bytes_to_public_key(key_bytes) ==
    IF Len(key_bytes) < 32 THEN Err("EncryptionError", "PublicKeyTooShort")
    ELSE Ok(SubSeq(key_bytes, 1, 32))

\* The key data of a key string: strip_prefix("1:") and base85::decode
\* (encryption.rs:44-48 and 75-79).
KeyData(key_str) ==
    LET Decoded(bytes) ==
            IF IsNone(bytes) THEN Err("EncryptionError", "InvalidPublicKey")
            ELSE Ok(Unwrap(bytes))
    IN  IF ~StartsWith(key_str, <<49, 58>>) THEN Err("EncryptionError", "InvalidPublicKey")
        ELSE Decoded(base85_decode(SubSeq(key_str, 3, Len(key_str))))

\* Encryptor::read_kitty_public_key in an environment [KITTY_PUBLIC_KEY: Option,
\* key_file: Option]: the variable if std::env::var returns it, which it does
\* for a value that is set and is valid Unicode; else the bytes of the file
\* $HOME/.config/kitty/key.pub if it exists (a file that cannot be read is not
\* modelled).
read_kitty_public_key(env) ==
    IF IsSome(env.KITTY_PUBLIC_KEY) /\ Utf8Valid(Unwrap(env.KITTY_PUBLIC_KEY))
        THEN KeyData(Unwrap(env.KITTY_PUBLIC_KEY))
    ELSE IF IsNone(env.key_file) THEN Err("EncryptionError", "MissingPublicKey")
    ELSE Ok(Unwrap(env.key_file))

\* Encryptor::new_with_public_key (with parse_public_key)
new_with_public_key(public_key, env) ==
    LET FromBytes(r) == IF r.kind = "err" THEN r ELSE bytes_to_public_key(r.val)
        Built(r) ==
            IF r.kind = "err" THEN r ELSE Ok([kitty_public_key |-> r.val])
    IN  IF IsSome(public_key) THEN Built(FromBytes(KeyData(Unwrap(public_key))))
        ELSE Built(FromBytes(read_kitty_public_key(env)))

\* A random source that repeats itself: every draw gives the same bytes.
OsRng_stuck(n, len) == [i \in 1..len |-> (i * 11) % 256]

\* The n-th draw of len bytes from OsRng.
OsRng(n, len) == [i \in 1..len |-> (n * 37 + i * 11) % 256]

\* Encryptor::encrypt_command with rng draws made before it: a new secret (draw
\* rng), its public key, the key hashed from the shared secret, a new nonce
\* (draw rng + 1), the cipher output (the data and a tag of 16 bytes), and the
\* envelope of encryption.rs:126-132.  It cannot fail on a Value.
Encryptor_encrypt_command(self, payload, rng) ==
    LET PublicKey(secret) == [i \in 1..32 |-> (secret[i] * 3 + 9) % 256]
        EncryptionKey(secret) ==
            [i \in 1..32 |-> ((secret[i] + self.kitty_public_key[i]) * 5 + 1) % 256]
        Encrypt(key, nonce, pt) ==
            [i \in 1..(Len(pt) + 16) |->
                IF i <= Len(pt)
                THEN (pt[i] + key[((i - 1) % 32) + 1] + nonce[((i - 1) % 12) + 1]) % 256
                ELSE (key[i - Len(pt)] + nonce[((i - Len(pt) - 1) % 12) + 1] + Len(pt)) % 256]
        Envelope(nonce, public_key, ciphertext) ==
            JObj(MapInsert(MapInsert(MapInsert(MapInsert(MapInsert(<<>>,
                \* "version": "0.43.1"
                <<118, 101, 114, 115, 105, 111, 110>>, JStr(<<48, 46, 52, 51, 46, 49>>)),
                \* "iv"
                <<105, 118>>, JStr(base85_encode(nonce))),
                \* "tag"
                <<116, 97, 103>>,
                JStr(base85_encode(SubSeq(ciphertext, Len(ciphertext) - 15,
                                          Len(ciphertext))))),
                \* "pubkey"
                <<112, 117, 98, 107, 101, 121>>, JStr(base85_encode(public_key))),
                \* "encrypted"
                <<101, 110, 99, 114, 121, 112, 116, 101, 100>>,
                JStr(base85_encode(SubSeq(ciphertext, 1, Len(ciphertext) - 16)))))
        With(secret, nonce) ==
            Envelope(nonce, PublicKey(secret),
                     Encrypt(EncryptionKey(secret), nonce, SerValue(payload)))
    IN  With(OsRng(rng, 32), OsRng(rng + 1, 12))

-----------------------------------------------------------------------------
(* client.rs: KittyBuilder and Kitty.  A builder is [socket_path, password,   *)
(* public_key], each an Option; a Kitty is [kind, stream, socket_path,        *)
(* password, encryptor].  The environment of connect is [connect: what the    *)
(* socket connect does ("ok", "timeout", "refused"), store: what running      *)
(* kitty-pubkey-db does ([spawn, success, stdout]), KITTY_PUBLIC_KEY,         *)
(* key_file].                                                                 *)

\* KittyBuilder::extract_pid_from_socket: the PID in a file name
\* kitty-<digits>.sock (up to nine digits here, a u32 has up to ten).
extract_pid_from_socket(socket_path) ==
    LET Slashes == {i \in 1..Len(socket_path) : socket_path[i] = 47}
        Pid(digits) ==
            IF /\ Len(digits) \in 1..9
               /\ \A i \in 1..Len(digits) : IsDigit(digits[i])
            THEN Some(ParseDigits(digits, 1, 0).n)
            ELSE None
        Named(filename) ==
            IF /\ StartsWith(filename, <<107, 105, 116, 116, 121, 45>>)      \* kitty-
               /\ EndsWith(filename, <<46, 115, 111, 99, 107>>)              \* .sock
               /\ Len(filename) >= 11
            THEN Pid(SubSeq(filename, 7, Len(filename) - 5))
            ELSE None
    IN  Named(SubSeq(socket_path,
                     IF Slashes = {} THEN 1
                     ELSE (CHOOSE i \in Slashes : \A j \in Slashes : j <= i) + 1,
                     Len(socket_path)))

\* KittyBuilder::query_public_key_database: the trimmed output of
\* kitty-pubkey-db get <pid>.
query_public_key_database(pid, store) ==
    LET Ws == {9, 10, 11, 12, 13, 32}
        Trimmed(s) ==
            LET Kept == {i \in 1..Len(s) : s[i] \notin Ws}
            IN  IF Kept = {} THEN <<>>
                ELSE SubSeq(s, CHOOSE i \in Kept : \A j \in Kept : i <= j,
                               CHOOSE i \in Kept : \A j \in Kept : j <= i)
        Found(pubkey) == IF pubkey = <<>> THEN Ok(None) ELSE Ok(Some(pubkey))
    IN  IF ~store.spawn THEN Err("EncryptionError", "PublicKeyDatabaseError")
        ELSE IF ~store.success THEN Ok(None)
        ELSE IF ~Utf8Valid(store.stdout)
            THEN Err("EncryptionError", "PublicKeyDatabaseError")
        ELSE Found(Trimmed(store.stdout))

\* KittyBuilder::connect
connect(builder, env) ==
    LET Client(encryptor) ==
            Ok([kind |-> "Kitty", stream |-> Some(1),
                socket_path |-> Unwrap(builder.socket_path),
                password |-> builder.password, encryptor |-> encryptor])
        WithEncryptor(e) == IF e.kind = "err" THEN e ELSE Client(Some(e.val))
        WithKey(public_key) ==
            IF public_key.kind = "err" THEN public_key
            ELSE WithEncryptor(new_with_public_key(public_key.val, env))
        FromStore(pid) ==
            IF IsSome(pid) THEN query_public_key_database(Unwrap(pid), env.store)
            ELSE Ok(None)
    IN  IF IsNone(builder.socket_path) THEN Err("ConnectionError", "SocketNotFound")
        ELSE IF env.connect = "timeout" THEN Err("ConnectionError", "TimeoutError")
        ELSE IF env.connect # "ok" THEN Err("ConnectionError", "ConnectionFailed")
        ELSE IF IsNone(builder.password) THEN Client(None)
        ELSE IF IsSome(builder.public_key) THEN WithKey(Ok(builder.public_key))
        ELSE WithKey(FromStore(extract_pid_from_socket(Unwrap(builder.socket_path))))

\* encrypt_command without its early returns: the timestamp goes into the
\* payload whether or not there is an encryptor.
encrypt_command_stamped(self, message, timestamp, rng) ==
    [message EXCEPT !.payload =
        Some(JObj(MapInsert(IF IsSome(@) /\ Unwrap(@).t = "obj" THEN Unwrap(@).o
                            ELSE <<>>,
                            <<116, 105, 109, 101, 115, 116, 97, 109, 112>>,
                            JNum(timestamp))))]

\* Kitty::encrypt_command at clock reading timestamp, with rng draws made
\* before it (the clock is after the epoch, so reading it cannot fail).
encrypt_command(self, message, timestamp, rng) ==
    LET WithAuth(obj) ==
            MapInsert(MapInsert(obj,
                \* "password"
                <<112, 97, 115, 115, 119, 111, 114, 100>>, JStr(Unwrap(self.password))),
                \* "timestamp"
                <<116, 105, 109, 101, 115, 116, 97, 109, 112>>, JNum(timestamp))
        Cleartext ==
            IF IsNone(message.payload) THEN JObj(WithAuth(<<>>))
            ELSE IF Unwrap(message.payload).t = "obj"
                THEN JObj(WithAuth(Unwrap(message.payload).o))
            ELSE Unwrap(message.payload)
    IN  IF IsNone(self.encryptor) THEN message
        ELSE IF IsNone(self.password) THEN message
        ELSE [message EXCEPT !.payload =
                Some(Encryptor_encrypt_command(Unwrap(self.encryptor), Cleartext, rng))]


-----------------------------------------------------------------------------
(* The clients: Kitty (client.rs) and KittyClient (transport.rs).            *)
(* A client is a record [kind, stream, socket_path, password, encryptor];    *)
(* a KittyClient has no password and no encryptor.  The socket is            *)
(* [wire, inbox, script, sent, peer]: wire holds the byte strings the        *)
(* client's write_all calls completed, in order; inbox the bytes the peer    *)
(* sent and the client has not read; script what the peer answers, of which  *)
(* it sent the first `sent` bytes; peer is "open", "closed" (the peer closed *)
(* its end) or "reset" (it closed without reading what the client wrote).    *)

\* Before connect: no client, no call, no socket; the clock and the rng; no
\* socket connected yet; an empty pool (max_size as ConnectionPool::new sets it).
Idle ==
    [kitty |-> [kind |-> "none", stream |-> None, socket_path |-> <<>>,
                password |-> None, encryptor |-> None],
     call |-> [op |-> "none", pc |-> "idle", msg |-> KittyMessage(<<>>, <<>>),
               queue |-> <<>>, buffer |-> <<>>, ret |-> [kind |-> "none"]],
     sock |-> [wire |-> <<>>, inbox |-> <<>>, script |-> <<>>, sent |-> 0,
               peer |-> "open"],
     os |-> [now |-> 1000, rng |-> 0],
     sockets |-> [opened |-> 0, shut |-> {}],
     pool |-> [socket_path |-> <<>>, max_size |-> 10, connections |-> <<>>]]

\* KittyClient::connect_with_timeout, the outcome of UnixStream::connect given.
KittyClient_connect(path, outcome) ==
    IF outcome = "timeout" THEN Err("ConnectionError", "TimeoutError")
    ELSE IF outcome # "ok" THEN Err("ConnectionError", "ConnectionFailed")
    ELSE Ok([kind |-> "KittyClient", stream |-> Some(1), socket_path |-> path,
             password |-> None, encryptor |-> None])

\* The clock and the rng after one Kitty::encrypt_command: it reads the clock
\* and draws a secret and a nonce only past its two early returns.
Tick(self, o) ==
    IF IsNone(self.encryptor) \/ IsNone(self.password) THEN o
    ELSE [now |-> o.now + 1, rng |-> o.rng + 2]

\* `data` of Kitty::send (client.rs:199-200: the message is encrypted, then
\* encoded) and of KittyClient::send (transport.rs:56: encoded).
send_data(self, message, o) ==
    IF self.kind = "Kitty"
    THEN encode(encrypt_command(self, message, o.now, o.rng)).val
    ELSE encode(message).val

\* What send_all hands to send for one message of its loop: Kitty::send_all
\* encrypts it first (client.rs:246, 250), KittyClient::send_all does not.
send_all_item(self, message, o) ==
    IF self.kind = "Kitty" THEN encrypt_command(self, message, o.now, o.rng)
    ELSE message

\* The messages execute sends: the message itself.
send_messages(message, counter) == [chunks |-> <<message>>, counter |-> counter]

\* send_all without the split.
send_all_unsplit(message, counter) == send_messages(message, counter)

\* The messages send_all sends, and the id counter after.
send_all_messages(message, counter) ==
    IF needs_streaming(message) THEN into_chunks(message, counter)
    ELSE send_messages(message, counter)

\* receive after its read loop, without the test for an empty buffer.
receive_end_unchecked(buffer) == KittyResponse_decode(buffer)

\* receive after its read loop (client.rs:231-235, transport.rs:89-93); the
\* `?` turns a ProtocolError into KittyError::Protocol.
receive_end(buffer) ==
    IF buffer = <<>> THEN Err("ConnectionError", "ConnectionClosed")
    ELSE KittyResponse_decode(buffer)

\* KittyClient::ensure_connected, the outcome of UnixStream::connect given and
\* id the socket it yields: a client without a stream connects one.
ensure_connected(self, outcome, id) ==
    IF IsSome(self.stream) THEN Ok(self)
    ELSE IF outcome = "timeout" THEN Err("ConnectionError", "TimeoutError")
    ELSE IF outcome # "ok" THEN Err("ConnectionError", "ConnectionFailed")
    ELSE Ok([self EXCEPT !.stream = Some(id)])

\* reconnect, the outcome of UnixStream::connect given and id the socket it
\* yields: the result and the client after.  A KittyClient has taken its
\* stream out before it connects (transport.rs:119), a Kitty keeps the stream
\* it has shut down unless the connect succeeds (client.rs:273-280).
reconnect(self, outcome, id) ==
    LET taken == IF self.kind = "Kitty" THEN self ELSE [self EXCEPT !.stream = None]
    IN  IF outcome = "timeout"
            THEN [ret |-> Err("ConnectionError", "TimeoutError"), self |-> taken]
        ELSE IF outcome # "ok"
            THEN [ret |-> Err("ConnectionError", "ConnectionFailed"), self |-> taken]
        ELSE [ret |-> Ok(<<>>), self |-> [self EXCEPT !.stream = Some(id)]]

\* close: a KittyClient takes its stream out (transport.rs:133), a Kitty keeps
\* the stream it shuts down (client.rs:285).
close(self) == IF self.kind = "Kitty" THEN self ELSE [self EXCEPT !.stream = None]

\* release without the test of the size: the client is always kept.
release_always(self, client) == [self EXCEPT !.connections = Append(@, client)]

\* ConnectionPool::release
release(self, client) ==
    IF Len(self.connections) < self.max_size
    THEN [self EXCEPT !.connections = Append(@, client)]
    ELSE self

\* ConnectionPool::acquire, the outcome of UnixStream::connect given and id
\* the socket it yields: the result and the pool after.  The last client of
\* connections is popped and made sure to be connected (it is dropped if that
\* fails); without one a new client is connected.  A client carries in obj
\* which object it is: the socket it was made with.
acquire(self, outcome, id) ==
    LET n == Len(self.connections)
        Made(r) == IF r.kind = "err" THEN r
                   ELSE Ok([obj |-> id] @@ [r.val EXCEPT !.stream = Some(id)])
    IN  IF n > 0
        THEN [ret |-> ensure_connected(self.connections[n], outcome, id),
              self |-> [self EXCEPT !.connections = SubSeq(@, 1, n - 1)]]
        ELSE [ret |-> Made(KittyClient_connect(self.socket_path, outcome)),
              self |-> self]
-----------------------------------------------------------------------------
(* The codec applied to inputs: every message of CodecMessages is encoded    *)
(* and decoded again, every byte string of CodecBytes is decoded as a        *)
(* message and as a response.                                                *)

S_ls == <<108, 115>>                                     \* ls
\* a, a quote, a backslash, ESC, a line feed, e-acute (2 bytes), U+20AC (3 bytes)
S_tricky == <<97, 34, 92, 27, 10, 195, 169, 226, 130, 172>>

\* Payloads: none, null, the scalars, an array, objects (the one of
\* protocol.rs:238, {"match":"id:1","data":"text:hello"}, among them).
CodecPayloads ==
    {None,
     Some(JNull),
     Some(JBool(TRUE)),
     Some(JNum(7)),
     Some(JStr(S_tricky)),
     Some(JArr(<<JNull, JNum(0)>>)),
     Some(JObj(<<>>)),
     Some(JObj(<<Entry(Key.data,
                       JStr(<<116, 101, 120, 116, 58, 104, 101, 108, 108, 111>>)),
                 Entry(<<109, 97, 116, 99, 104>>, JStr(<<105, 100, 58, 49>>))>>)),
     Some(JObj(<<Entry(S_tricky, JObj(<<Entry(S_ls, JArr(<<JBool(FALSE)>>))>>)),
                 Entry(Key.data, JNull)>>))}

CodecMessages ==
    LET OptBools == {None, Some(TRUE), Some(FALSE)}
        OptStrings == {None, Some(S_tricky)}
    IN  {[cmd |-> c, version |-> v, no_response |-> nr, kitty_window_id |-> w,
          payload |-> p, async_id |-> a, cancel_async |-> ca, stream_id |-> si,
          stream |-> st] :
            c \in {S_ls, S_tricky}, v \in {<<0, 43, 1>>, <<>>}, nr \in OptBools,
            w \in OptStrings, p \in CodecPayloads, a \in OptStrings,
            ca \in {None, Some(TRUE)}, si \in OptStrings, st \in {None, Some(FALSE)}}

\* Byte strings to decode: a head, a body and a tail.  The heads: the prefix,
\* nothing, the prefix cut short at either end, with its last byte changed,
\* after a space.  The tails: the suffix, nothing, either of its bytes alone,
\* its bytes swapped, the suffix before a line feed.
CodecBytes ==
    LET Heads ==
            {PREFIX, <<>>, SubSeq(PREFIX, 1, 11), SubSeq(PREFIX, 2, 12),
             SubSeq(PREFIX, 1, 11) \o <<101>>, <<32>> \o PREFIX}
        Tails == {SUFFIX, <<>>, <<27>>, <<92>>, <<92, 27>>, SUFFIX \o <<10>>}
        Bodies ==
            {<<>>,
             \* {"ok":true}
             <<123, 34, 111, 107, 34, 58, 116, 114, 117, 101, 125>>,
             \* {"ok":false,"error":"x"}
             <<123, 34, 111, 107, 34, 58, 102, 97, 108, 115, 101, 44, 34, 101, 114, 114,
               111, 114, 34, 58, 34, 120, 34, 125>>,
             \* []
             <<91, 93>>,
             \* [true,null,null]
             <<91, 116, 114, 117, 101, 44, 110, 117, 108, 108, 44, 110, 117, 108, 108, 93>>,
             \* 7
             <<55>>,
             \* "s"
             <<34, 115, 34>>,
             \* null
             <<110, 117, 108, 108>>,
             \* {"cmd":"ls","version":[0,43,1]}
             <<123, 34, 99, 109, 100, 34, 58, 34, 108, 115, 34, 44, 34, 118, 101, 114, 115,
               105, 111, 110, 34, 58, 91, 48, 44, 52, 51, 44, 49, 93, 125>>,
             \* {"ok":true          (cut short)
             <<123, 34, 111, 107, 34, 58, 116, 114, 117, 101>>,
             \* {"ok":true,"error":"<C3>"}      (not UTF-8)
             <<123, 34, 111, 107, 34, 58, 116, 114, 117, 101, 44, 34, 101, 114, 114, 111,
               114, 34, 58, 34, 195, 34, 125>>,
             \* {"ok":true,"data":"<C3 A9>"}
             <<123, 34, 111, 107, 34, 58, 116, 114, 117, 101, 44, 34, 100, 97, 116, 97, 34,
               58, 34, 195, 169, 34, 125>>,
             \* ["ls",[0],null,null,null,null,null,null,null]
             <<91, 34, 108, 115, 34, 44, 91, 48, 93, 44, 110, 117, 108, 108, 44, 110, 117,
               108, 108, 44, 110, 117, 108, 108, 44, 110, 117, 108, 108, 44, 110, 117, 108,
               108, 44, 110, 117, 108, 108, 44, 110, 117, 108, 108, 93>>,
             \* {"ok" : true} between spaces
             <<32, 123, 34, 111, 107, 34, 32, 58, 32, 116, 114, 117, 101, 125, 32>>,
             \* {"ok":1}
             <<123, 34, 111, 107, 34, 58, 49, 125>>,
             \* {"cmd":"ls","cmd":"ls","version":[]}
             <<123, 34, 99, 109, 100, 34, 58, 34, 108, 115, 34, 44, 34, 99, 109, 100, 34,
               58, 34, 108, 115, 34, 44, 34, 118, 101, 114, 115, 105, 111, 110, 34, 58, 91,
               93, 125>>,
             \* one byte that is not UTF-8
             <<255>>}
    IN  {h \o b \o t : h \in Heads, b \in Bodies, t \in Tails}

NoResult == [kind |-> "none"]

InitCodec ==
    /\ fn = "none"
    /\ ret = NoResult
    /\ \/ arg \in {[is |-> "message", v |-> m] : m \in CodecMessages}
       \/ arg \in {[is |-> "bytes", v |-> b] : b \in CodecBytes}
    /\ STREAM_ID_COUNTER = 1 /\ kitty = Idle.kitty /\ call = Idle.call /\ sock = Idle.sock /\ trace = <<>> /\ os = Idle.os /\ sockets = Idle.sockets /\ pool = Idle.pool

\* msg.encode()
ApplyEncode ==
    /\ fn = "none" /\ arg.is = "message"
    /\ fn' = "encode"
    /\ ret' = encode(arg.v)
    /\ UNCHANGED <<arg, STREAM_ID_COUNTER, kitty, call, sock, trace, os, sockets, pool>>

\* KittyMessage::decode(&encoded) of the bytes encode returned (the round trip
\* of the tests protocol.rs:226-284)
ApplyDecodeEncoded ==
    /\ fn = "encode" /\ ret.kind = "ok"
    /\ fn' = "decode_encoded"
    /\ ret' = KittyMessage_decode(ret.val)
    /\ UNCHANGED <<arg, STREAM_ID_COUNTER, kitty, call, sock, trace, os, sockets, pool>>

\* KittyMessage::decode(data)
ApplyMessageDecode ==
    /\ fn = "none" /\ arg.is = "bytes"
    /\ fn' = "KittyMessage_decode"
    /\ ret' = KittyMessage_decode(arg.v)
    /\ UNCHANGED <<arg, STREAM_ID_COUNTER, kitty, call, sock, trace, os, sockets, pool>>

\* KittyResponse::decode(data)
ApplyResponseDecode ==
    /\ fn = "none" /\ arg.is = "bytes"
    /\ fn' = "KittyResponse_decode"
    /\ ret' = KittyResponse_decode(arg.v)
    /\ UNCHANGED <<arg, STREAM_ID_COUNTER, kitty, call, sock, trace, os, sockets, pool>>

NextCodec ==
    \/ ApplyEncode
    \/ ApplyDecodeEncoded
    \/ ApplyMessageDecode
    \/ ApplyResponseDecode

SpecCodec == InitCodec /\ [][NextCodec]_vars

-----------------------------------------------------------------------------
(* needs_streaming and into_chunks applied to inputs: messages whose payload *)
(* is an object with one string field of a length around the multiples of    *)
(* MAX_CHUNK_SIZE, one with two oversized strings, and one whose string has  *)
(* a character of two bytes across the end of the first slice.               *)

\* The longest string of the inputs spans MaxChunks whole slices and one byte.
MaxChunks == 3

\* A string of n bytes, the letters a..z over and over.
Letters(n) == [i \in 1..n |-> 97 + ((i - 1) % 26)] \o <<>>

\* {"data": <len bytes>} or {"text": <len bytes>}, alone or beside a number and
\* a null (protocol.rs:302-325 use {"data": "x".repeat(5000)}).
ChunkMessages ==
    LET Lengths ==
            {k * MAX_CHUNK_SIZE + d : k \in 0..MaxChunks, d \in {0 - 1, 0, 1}} \ {0 - 1}
        text == <<116, 101, 120, 116>>
        Others ==
            {<<>>,
             <<Entry(<<97>>, JNum(7)), Entry(<<122>>, JNull)>>}
        Payload(key, len, others) ==
            Some(JObj([i \in 1..(Len(others) + 1) |->
                    IF i = 1 THEN IF others = <<>> THEN Entry(key, JStr(Letters(len)))
                                  ELSE others[1]
                    ELSE IF i = 2 THEN Entry(key, JStr(Letters(len)))
                    ELSE others[2]]))
        \* {"data": <4097 bytes>, "match": "id:1", "text": <4098 bytes>}, and
        \* {"data": <4095 letters, e-acute (2 bytes), 10 letters>}
        Special ==
            {Some(JObj(<<Entry(Key.data, JStr(Letters(MAX_CHUNK_SIZE + 1))),
                         Entry(<<109, 97, 116, 99, 104>>, JStr(<<105, 100, 58, 49>>)),
                         Entry(text, JStr(Letters(MAX_CHUNK_SIZE + 2)))>>)),
             Some(JObj(<<Entry(Key.data,
                               JStr(Letters(MAX_CHUNK_SIZE - 1) \o <<195, 169>>
                                    \o Letters(10)))>>))}
    IN  {[cmd |-> S_ls, version |-> <<0, 43, 1>>, no_response |-> nr,
          kitty_window_id |-> None, payload |-> Payload(key, len, others),
          async_id |-> None, cancel_async |-> None, stream_id |-> si,
          stream |-> None] :
            nr \in {None, Some(TRUE)}, si \in {None, Some(S_tricky)},
            key \in {Key.data, text}, len \in Lengths, others \in Others}
        \cup {[KittyMessage(S_ls, <<0, 43, 1>>) EXCEPT !.payload = p] : p \in Special}

InitChunks ==
    /\ fn = "none"
    /\ ret = NoResult
    /\ arg \in {[is |-> "message", v |-> m] : m \in ChunkMessages}
    /\ STREAM_ID_COUNTER \in {1, 26}
    /\ kitty = Idle.kitty /\ call = Idle.call /\ sock = Idle.sock /\ trace = <<>> /\ os = Idle.os /\ sockets = Idle.sockets /\ pool = Idle.pool

\* msg.needs_streaming()
ApplyNeedsStreaming ==
    /\ fn = "none"
    /\ fn' = "needs_streaming"
    /\ ret' = Ok(needs_streaming(arg.v))
    /\ UNCHANGED <<arg, STREAM_ID_COUNTER, kitty, call, sock, trace, os, sockets, pool>>

\* msg.into_chunks()
ApplyIntoChunks ==
    /\ fn = "none"
    /\ fn' = "into_chunks"
    /\ ret' = Ok(into_chunks(arg.v, STREAM_ID_COUNTER).chunks)
    /\ STREAM_ID_COUNTER' = into_chunks(arg.v, STREAM_ID_COUNTER).counter
    /\ UNCHANGED <<arg, kitty, call, sock, trace, os, sockets, pool>>

NextChunks ==
    \/ ApplyNeedsStreaming
    \/ ApplyIntoChunks

SpecChunks == InitChunks /\ [][NextChunks]_vars

-----------------------------------------------------------------------------
(* KittyBuilder::connect applied to builders and environments *)

\* "1:" and the base85 of 32 bytes that start at b.
KeyString(b) == <<49, 58>> \o base85_encode([i \in 1..32 |-> (b + i) % 256])

ConnectInputs ==
    LET \* no "1:" prefix; a character outside the alphabet; four bytes only
        BadKeys == {<<107, 101, 121>>, <<49, 58, 58, 58>>,
                    <<49, 58>> \o base85_encode(<<1, 2, 3, 4>>)}
        Builders ==
            [socket_path :
                {None,
                 \* /run/kitty-123.sock
                 Some(<<47, 114, 117, 110, 47, 107, 105, 116, 116, 121, 45, 49, 50,
                        51, 46, 115, 111, 99, 107>>),
                 \* /tmp/mykitty
                 Some(<<47, 116, 109, 112, 47, 109, 121, 107, 105, 116, 116, 121>>)},
             password : {None, Some(<<112, 119>>)},
             public_key : {None, Some(KeyString(10))}
                          \cup {Some(k) : k \in BadKeys}]
        Stores ==
            {[spawn |-> FALSE, success |-> FALSE, stdout |-> <<>>],
             [spawn |-> TRUE, success |-> FALSE, stdout |-> <<>>],
             [spawn |-> TRUE, success |-> TRUE, stdout |-> <<>>],
             [spawn |-> TRUE, success |-> TRUE, stdout |-> KeyString(20) \o <<10>>],
             [spawn |-> TRUE, success |-> TRUE, stdout |-> <<255, 10>>],
             [spawn |-> TRUE, success |-> TRUE, stdout |-> <<107, 101, 121, 10>>]}
        Envs ==
            [connect : {"ok", "timeout", "refused"},
             store : Stores,
             KITTY_PUBLIC_KEY : {None, Some(KeyString(30)), Some(<<107, 101, 121>>)},
             key_file : {None, Some(SubSeq(Letters(40), 1, 32))}]
    IN  {[is |-> "connect", builder |-> b, env |-> e] : b \in Builders, e \in Envs}

InitConnect ==
    /\ fn = "none"
    /\ ret = NoResult
    /\ arg \in ConnectInputs
    /\ STREAM_ID_COUNTER = 1
    /\ kitty = Idle.kitty /\ call = Idle.call /\ sock = Idle.sock /\ trace = <<>> /\ os = Idle.os /\ sockets = Idle.sockets /\ pool = Idle.pool

\* builder.connect()
ApplyConnect ==
    /\ fn = "none"
    /\ fn' = "connect"
    /\ ret' = connect(arg.builder, arg.env)
    /\ UNCHANGED <<arg, STREAM_ID_COUNTER, kitty, call, sock, trace, os, sockets, pool>>

\* kitty.send(message) or kitty.send_all(message) on the client connect
\* returned, for a message below the chunk threshold and writes that succeed:
\* ret becomes the client, the message and the frames written.  send_all
\* encrypts the message and hands it to send, which encrypts again
\* (client.rs:250-251, 199).
ApplySend ==
    \E how \in {"send", "send_all"} :
        \E message \in
            {[KittyMessage(S_ls, <<0, 43, 1>>) EXCEPT !.payload = p] :
                p \in {None,
                       \* {"match":"id:1","password":"x"}
                       Some(JObj(<<Entry(<<109, 97, 116, 99, 104>>,
                                         JStr(<<105, 100, 58, 49>>)),
                                   Entry(<<112, 97, 115, 115, 119, 111, 114, 100>>,
                                         JStr(<<120>>))>>)),
                       Some(JArr(<<JNum(1)>>))}} :
            LET Sent(self) ==
                    /\ ret' = Ok([self |-> self, message |-> message,
                                  frames |->
                                    IF how = "send"
                                    THEN <<send_data(self, message, os)>>
                                    ELSE <<send_data(self,
                                                     send_all_item(self, message, os),
                                                     Tick(self, os))>>])
                    /\ os' = IF how = "send" THEN Tick(self, os)
                             ELSE Tick(self, Tick(self, os))
            IN  /\ fn = "connect"
                /\ ret.kind = "ok"
                /\ ~needs_streaming(message)
                /\ fn' = how
                /\ Sent(ret.val)
                /\ UNCHANGED <<arg, STREAM_ID_COUNTER, kitty, call, sock, trace,
                               sockets, pool>>

NextConnect == ApplyConnect \/ ApplySend

SpecConnect == InitConnect /\ [][NextConnect]_vars


-----------------------------------------------------------------------------
(* The client against a peer: connect, then one execute or execute_all,      *)
(* while the peer sends its reply in pieces, closes or resets.               *)

\* send-text with a short text, and with a text one byte over MAX_CHUNK_SIZE
\* beside a match; ls without a payload.
EngineMessages ==
    LET send_text == <<115, 101, 110, 100, 45, 116, 101, 120, 116>>
        match == Entry(<<109, 97, 116, 99, 104>>, JStr(<<105, 100, 58, 49>>))
        With(text) ==
            [KittyMessage(send_text, <<0, 43, 1>>) EXCEPT
                !.payload = Some(JObj(<<Entry(Key.data, JStr(text)), match>>))]
    IN  {KittyMessage(S_ls, <<0, 43, 1>>),
         With(<<104, 105>>),
         With(Letters(MAX_CHUNK_SIZE + 1))}

\* What the peer answers: nothing; {"ok":true}; {"ok":false,"error":"bad"};
\* an array; {"ok":true} without the prefix.
PeerReplies ==
    LET ok_true == <<123, 34, 111, 107, 34, 58, 116, 114, 117, 101, 125>>
    IN  {<<>>,
         PREFIX \o ok_true \o SUFFIX,
         PREFIX \o <<123, 34, 111, 107, 34, 58, 102, 97, 108, 115, 101, 44, 34,
                     101, 114, 114, 111, 114, 34, 58, 34, 98, 97, 100, 34, 125>>
                \o SUFFIX,
         PREFIX \o <<91, 93>> \o SUFFIX,
         ok_true \o SUFFIX}

Init ==
    /\ fn = "none"
    /\ arg = NoResult
    /\ ret = NoResult
    /\ STREAM_ID_COUNTER = 1
    /\ kitty = Idle.kitty
    /\ call = Idle.call
    /\ sock \in {[Idle.sock EXCEPT !.script = r] : r \in PeerReplies}
    /\ trace = <<>>
    /\ os = Idle.os
    /\ sockets = Idle.sockets /\ pool = Idle.pool

\* Kitty::builder()...connect(): without a socket path, with one, and with a
\* password and a public key.
ConnectKitty ==
    \E builder \in
            {[socket_path |-> None, password |-> None, public_key |-> None],
             [socket_path |-> Some(<<47, 114, 117, 110, 47, 107>>),
              password |-> None, public_key |-> None],
             [socket_path |-> Some(<<47, 114, 117, 110, 47, 107>>),
              password |-> Some(<<112, 119>>), public_key |-> Some(KeyString(10))]},
       outcome \in {"ok", "timeout", "refused"} :
        LET Done(r) ==
                /\ kitty' = IF r.kind = "ok" THEN r.val ELSE kitty
                /\ call' = [call EXCEPT !.op = "connect", !.pc = "done", !.ret = r]
        IN  /\ call.op = "none"
            /\ Done(connect(builder,
                    [connect |-> outcome,
                     store |-> [spawn |-> FALSE, success |-> FALSE, stdout |-> <<>>],
                     KITTY_PUBLIC_KEY |-> None, key_file |-> None]))
            /\ trace' = <<<<"connect", IF IsNone(builder.socket_path) THEN "notfound"
                                       ELSE outcome>>>>
            /\ UNCHANGED <<fn, arg, ret, STREAM_ID_COUNTER, sock, os,
                           sockets, pool>>

\* KittyClient::connect(path)
ConnectClient ==
    \E outcome \in {"ok", "timeout", "refused"} :
        LET Done(r) ==
                /\ kitty' = IF r.kind = "ok" THEN r.val ELSE kitty
                /\ call' = [call EXCEPT !.op = "connect", !.pc = "done", !.ret = r]
        IN  /\ call.op = "none"
            /\ Done(KittyClient_connect(<<47, 114, 117, 110, 47, 107>>, outcome))
            /\ trace' = <<<<"connect", outcome>>>>
            /\ UNCHANGED <<fn, arg, ret, STREAM_ID_COUNTER, sock, os,
                           sockets, pool>>

\* execute(&message) or execute_all(&message) is called on the connected
\* client: send_all decides on the split before its first write.
Call ==
    \E op \in {"execute", "execute_all"}, message \in EngineMessages :
        LET Start(q) ==
                /\ call' = [op |-> op, pc |-> "send", msg |-> message,
                            queue |-> q.chunks, buffer |-> <<>>, ret |-> NoResult]
                /\ STREAM_ID_COUNTER' = q.counter
        IN  /\ call.op = "connect"
            /\ kitty.kind # "none"
            /\ IF op = "execute" THEN Start(send_messages(message, STREAM_ID_COUNTER))
               ELSE Start(send_all_messages(message, STREAM_ID_COUNTER))
            /\ trace' = <<>>
            /\ UNCHANGED <<fn, arg, ret, kitty, sock, os, sockets, pool>>

\* One send of the call, on the next message of its loop: the write_all
\* completes, or times out while the peer does not read; a write to a socket
\* whose peer is gone fails with an io::Error.  execute_all on a Kitty encrypts
\* the message in send_all and again in send.  A failed send ends the call by
\* `?`; after the last send the call enters receive.  (The stream of a
\* KittyClient is present from connect on, so ensure_connected does nothing.)
Write ==
    \E outcome \in {"ok", "timeout"} :
        LET rest == Tail(call.queue)
            result == IF sock.peer # "open" THEN "io" ELSE outcome
            Sent(data, o) ==
                /\ os' = o
                /\ sock' = IF result = "ok" THEN [sock EXCEPT !.wire = Append(@, data)]
                           ELSE sock
                /\ call' =
                    IF result = "ok"
                    THEN [call EXCEPT !.queue = rest,
                                      !.pc = IF rest = <<>> THEN "receive" ELSE "send"]
                    ELSE [call EXCEPT !.pc = "done",
                                      !.ret = IF result = "timeout"
                                              THEN Err("ConnectionError", "TimeoutError")
                                              ELSE Err("Io", "BrokenPipe")]
                /\ trace' = trace \o <<<<"write", result>>>>
                                  \o IF result = "ok" /\ rest = <<>>
                                     THEN <<<<"receive", "enter">>>> ELSE <<>>
        IN  /\ call.pc = "send"
            /\ sock.peer = "open" \/ outcome = "ok"
            /\ IF call.op = "execute_all"
               THEN Sent(send_data(kitty, send_all_item(kitty, Head(call.queue), os),
                                   Tick(kitty, os)),
                         Tick(kitty, Tick(kitty, os)))
               ELSE Sent(send_data(kitty, Head(call.queue), os), Tick(kitty, os))
            /\ UNCHANGED <<fn, arg, ret, STREAM_ID_COUNTER, kitty,
                           sockets, pool>>

\* One turn of the read loop of receive: read returns the bytes there are (up
\* to 8192), or 0 once the peer has closed, or an io::Error after a reset, or
\* the timeout elapses because nothing arrives.
Read ==
    LET n == Min(Len(sock.inbox), 8192)
        Finish(r, how) ==
            /\ call' = [call EXCEPT !.pc = "done", !.ret = r]
            /\ trace' = Append(trace, <<"read", how>>)
        Got(buffer) ==
            /\ call' = IF EndsWith(buffer, SUFFIX)
                       THEN [call EXCEPT !.buffer = buffer, !.pc = "done",
                                         !.ret = receive_end(buffer)]
                       ELSE [call EXCEPT !.buffer = buffer]
            /\ trace' = Append(trace, <<"read", "data">>)
    IN  /\ call.pc = "receive"
        /\ sock' = [sock EXCEPT !.inbox = SubSeq(@, n + 1, Len(@))]
        /\ IF n > 0 THEN Got(call.buffer \o SubSeq(sock.inbox, 1, n))
           ELSE IF sock.peer = "closed" THEN Finish(receive_end(call.buffer), "eof")
           ELSE IF sock.peer = "reset" THEN Finish(Err("Io", "ConnectionReset"), "io")
           ELSE Finish(Err("ConnectionError", "TimeoutError"), "timeout")
        /\ UNCHANGED <<fn, arg, ret, STREAM_ID_COUNTER, kitty, os,
                       sockets, pool>>

\* The peer sends more of its reply: up to its first byte, up to its last but
\* one, or all of it.
PeerSend ==
    \E p \in {1, Len(sock.script) - 1, Len(sock.script)}
                \cap (sock.sent + 1)..Len(sock.script) :
        /\ kitty.kind # "none"
        /\ call.op = "connect" \/ call.pc # "done"
        /\ sock.peer = "open"
        /\ sock' = [sock EXCEPT !.inbox = @ \o SubSeq(sock.script, sock.sent + 1, p),
                                !.sent = p]
        /\ UNCHANGED <<fn, arg, ret, STREAM_ID_COUNTER, kitty, call, trace, os,
                       sockets, pool>>

\* The peer closes its end.
PeerClose ==
    /\ kitty.kind # "none"
    /\ call.op = "connect" \/ call.pc # "done"
    /\ sock.peer = "open"
    /\ sock' = [sock EXCEPT !.peer = "closed"]
    /\ UNCHANGED <<fn, arg, ret, STREAM_ID_COUNTER, kitty, call, trace, os,
                   sockets, pool>>

\* The peer closes its end without having read what the client wrote.
PeerReset ==
    /\ call.pc # "done"
    /\ sock.peer = "open"
    /\ sock.wire # <<>>
    /\ sock' = [sock EXCEPT !.peer = "reset"]
    /\ UNCHANGED <<fn, arg, ret, STREAM_ID_COUNTER, kitty, call, trace, os,
                   sockets, pool>>

Next ==
    \/ ConnectKitty
    \/ ConnectClient
    \/ Call
    \/ Write
    \/ Read
    \/ PeerSend
    \/ PeerClose
    \/ PeerReset

Spec == Init /\ [][Next]_vars

\* Bytes of a peer that does not answer with a frame: nothing; the suffix
\* alone, after a byte, after an ESC, before a byte, and twice.
PeerBytes ==
    {<<>>,
     SUFFIX,
     <<97>> \o SUFFIX,
     <<27>> \o SUFFIX,
     SUFFIX \o <<97>>,
     SUFFIX \o SUFFIX}

InitReceive ==
    /\ fn = "none"
    /\ arg = NoResult
    /\ ret = NoResult
    /\ STREAM_ID_COUNTER = 1
    /\ kitty = Idle.kitty
    /\ call = Idle.call
    /\ sock \in {[Idle.sock EXCEPT !.script = r] : r \in PeerBytes}
    /\ trace = <<>>
    /\ os = Idle.os
    /\ sockets = Idle.sockets /\ pool = Idle.pool

\* The client against such a peer, with the read loop of receive always going
\* on: the task is polled, and every read ends by data, end of stream, an
\* error or the timeout.
SpecReceive == InitReceive /\ [][Next]_vars /\ WF_vars(Read)

-----------------------------------------------------------------------------
(* The Encryptor applied to inputs: a sequence of encrypt_command calls on    *)
(* one Encryptor (ret holds the payload and the result of every call so      *)
(* far), Kitty::encrypt_command on a message, and new_with_public_key on a   *)
(* key string and an environment.                                            *)

MaxEncrypts == 3

EncryptInputs ==
    LET password == <<112, 97, 115, 115, 119, 111, 114, 100>>
        match == Entry(<<109, 97, 116, 99, 104>>, JStr(<<105, 100, 58, 49>>))
        Encryptors == {[kitty_public_key |-> SubSeq(Letters(b + 32), b, b + 31)] :
                        b \in {1, 14}}
        Clients ==
            {[kind |-> "Kitty", stream |-> Some(1), socket_path |-> <<47, 107>>,
              password |-> p[1], encryptor |-> p[2]] :
                p \in {<<None, None>>} \cup
                      {<<Some(<<112, 119>>), Some(e)>> : e \in Encryptors}}
        \* none; {"match":"id:1"}; {"match":"id:1","password":"x"}; [1]; "x"; 7; null
        Payloads ==
            {None, Some(JObj(<<match>>)),
             Some(JObj(<<match, Entry(password, JStr(<<120>>))>>)),
             Some(JArr(<<JNum(1)>>)), Some(JStr(<<120>>)), Some(JNum(7)), Some(JNull)}
        \* a key of 32 bytes, one of 40, one of 3, none ("1:"), no prefix
        \* ("invalid base85"), a character outside the alphabet, a group above
        \* 2^32 - 1, a last group of one character
        KeyStrings ==
            {KeyString(10),
             <<49, 58>> \o base85_encode([i \in 1..40 |-> 60 + i]),
             <<49, 58>> \o base85_encode(<<1, 2, 3>>),
             <<49, 58>>,
             <<105, 110, 118, 97, 108, 105, 100, 32, 98, 97, 115, 101, 56, 53>>,
             <<49, 58, 48, 48, 34, 48, 48>>,
             <<49, 58, 126, 126, 126, 126, 126>>,
             KeyString(10) \o <<48>>}
    IN  [encryptors |-> Encryptors,
         \* versions: the one of CommandBuilder::new, the one of protocol.rs:296
         kitty |-> {[self |-> c, message |-> [KittyMessage(S_ls, v)
                                               EXCEPT !.payload = p]] :
                        c \in Clients, p \in Payloads,
                        v \in {<<0, 43, 1>>, <<0, 14, 2>>}},
         keys |-> {[public_key |-> k, env |-> e] :
                     k \in {None} \cup {Some(s) : s \in KeyStrings},
                     e \in [KITTY_PUBLIC_KEY :
                                {None, Some(<<255, 49, 58>>)}
                                \cup {Some(s) : s \in KeyStrings},
                            key_file : {None, Some(SubSeq(Letters(40), 1, 32)),
                                        Some(<<1, 2, 3>>)}]}]

InitEncrypt ==
    /\ fn = "none"
    /\ ret = NoResult
    /\ \/ arg \in {[is |-> "Encryptor", self |-> e] : e \in EncryptInputs.encryptors}
       \/ arg \in {[is |-> "Kitty", self |-> k.self, message |-> k.message] :
                        k \in EncryptInputs.kitty}
       \/ arg \in {[is |-> "key", public_key |-> k.public_key, env |-> k.env] :
                        k \in EncryptInputs.keys}
    /\ STREAM_ID_COUNTER = 1
    /\ kitty = Idle.kitty /\ call = Idle.call /\ sock = Idle.sock
    /\ trace = <<>> /\ os = Idle.os
    /\ sockets = Idle.sockets /\ pool = Idle.pool

\* self.encrypt_command(payload), once more on the same Encryptor: {"cmd":"ls",
\* "password":"test","timestamp":1234567890} (encryption.rs:225), {}, "x" or 0.
ApplyEncrypt ==
    \E payload \in {JObj(<<Entry(Key.cmd, JStr(S_ls)),
                           Entry(<<112, 97, 115, 115, 119, 111, 114, 100>>,
                                 JStr(<<116, 101, 115, 116>>)),
                           Entry(<<116, 105, 109, 101, 115, 116, 97, 109, 112>>,
                                 JNum(1234567890))>>),
                    JObj(<<>>), JStr(<<120>>), JNum(0)} :
        LET Called(before) ==
                /\ Len(before) < MaxEncrypts
                /\ ret' = Ok(Append(before,
                        [payload |-> payload,
                         out |-> Encryptor_encrypt_command(arg.self, payload, os.rng)]))
        IN  /\ arg.is = "Encryptor"
            /\ Called(IF ret.kind = "ok" THEN ret.val ELSE <<>>)
            /\ fn' = "encrypt_command"
            /\ os' = [os EXCEPT !.rng = @ + 2]
            /\ UNCHANGED <<arg, STREAM_ID_COUNTER, kitty, call, sock, trace,
                           sockets, pool>>

\* self.encrypt_command(message) on a Kitty
ApplyKittyEncrypt ==
    /\ fn = "none"
    /\ arg.is = "Kitty"
    /\ fn' = "Kitty_encrypt_command"
    /\ ret' = Ok(encrypt_command(arg.self, arg.message, os.now, os.rng))
    /\ os' = Tick(arg.self, os)
    /\ UNCHANGED <<arg, STREAM_ID_COUNTER, kitty, call, sock, trace,
                   sockets, pool>>

\* Encryptor::new_with_public_key(public_key)
ApplyNewWithPublicKey ==
    /\ fn = "none"
    /\ arg.is = "key"
    /\ fn' = "new_with_public_key"
    /\ ret' = new_with_public_key(arg.public_key, arg.env)
    /\ UNCHANGED <<arg, STREAM_ID_COUNTER, kitty, call, sock, trace, os,
                   sockets, pool>>

NextEncrypt == ApplyEncrypt \/ ApplyKittyEncrypt \/ ApplyNewWithPublicKey

SpecEncrypt == InitEncrypt /\ [][NextEncrypt]_vars
-----------------------------------------------------------------------------
(* generate_unique_id called from two threads of one process.  A call is a   *)
(* fetch_add on STREAM_ID_COUNTER, which is atomic, and then the formatting  *)
(* of the value fetched, which is local to the thread.  arg.start is the     *)
(* counter the run starts at: the process has made the calls that fetched    *)
(* every value from 1 up to the one before arg.start.  call[t] is where      *)
(* thread t is, ret[t] the ids it has got so far.                            *)

MaxIds == 2

Threads == {1, 2}

\* The first call of the process; the calls on either side of 2^31; the last
\* call before the counter wraps around.
InitIds ==
    /\ fn = "generate_unique_id"
    /\ arg \in {[is |-> "ids", start |-> c] : c \in {1, 2147483646, -1}}
    /\ STREAM_ID_COUNTER = arg.start
    /\ call = [t \in Threads |-> [pc |-> "idle", id |-> 0]]
    /\ ret = [t \in Threads |-> <<>>]
    /\ kitty = Idle.kitty /\ sock = Idle.sock /\ trace = <<>> /\ os = Idle.os
    /\ sockets = Idle.sockets /\ pool = Idle.pool

\* let id = STREAM_ID_COUNTER.fetch_add(1, Ordering::Relaxed);
Fetch(t) ==
    /\ call[t].pc = "idle"
    /\ Len(ret[t]) < MaxIds
    /\ call' = [call EXCEPT ![t] = [pc |-> "format", id |-> STREAM_ID_COUNTER]]
    /\ STREAM_ID_COUNTER' = generate_unique_id(STREAM_ID_COUNTER).counter
    /\ UNCHANGED <<fn, arg, ret, kitty, sock, trace, os, sockets, pool>>

\* format!("{:x}", id)
Format(t) ==
    /\ call[t].pc = "format"
    /\ ret' = [ret EXCEPT ![t] = Append(@, generate_unique_id(call[t].id).id)]
    /\ call' = [call EXCEPT ![t] = [pc |-> "idle", id |-> 0]]
    /\ UNCHANGED <<fn, arg, STREAM_ID_COUNTER, kitty, sock, trace, os,
                   sockets, pool>>

NextIds == \E t \in Threads : Fetch(t) \/ Format(t)

SpecIds == InitIds /\ [][NextIds]_vars
-----------------------------------------------------------------------------
(* The life of a connection: send, receive, reconnect and close called one   *)
(* after the other on a connected Kitty or KittyClient, each with the        *)
(* outcome the socket gives it.  kitty.stream holds the id of the socket the *)
(* client has; trace holds a record [op, socket, result] for every call:     *)
(* the socket it wrote to, read from or shut down (0 if none) and "ok",      *)
(* "timeout", "io" (an io::Error), "refused" (the connect failed) or         *)
(* "closed" (ConnectionClosed).                                              *)

MaxOps == 3

\* A Kitty or a KittyClient that connect has just returned, on socket 1.
InitLifecycle ==
    /\ fn = "connect"
    /\ arg = [is |-> "lifecycle"]
    /\ ret = NoResult
    /\ STREAM_ID_COUNTER = 1
    /\ kitty \in {[Idle.kitty EXCEPT !.kind = k, !.stream = Some(1),
                                     !.socket_path = <<47, 107>>] :
                    k \in {"Kitty", "KittyClient"}}
    /\ call = Idle.call /\ sock = Idle.sock /\ trace = <<>> /\ os = Idle.os
    /\ sockets = [opened |-> 1, shut |-> {}]
    /\ pool = Idle.pool

\* send(&message): a KittyClient first makes sure it is connected; then
\* write_all on the stream, which fails on a socket that has been shut down.
Send ==
    \E connecting \in {"ok", "timeout", "refused"}, io \in {"ok", "timeout", "io"} :
        LET Written(s, result) ==
                /\ ret' = IF result = "ok" THEN Ok(<<>>)
                          ELSE IF result = "timeout"
                              THEN Err("ConnectionError", "TimeoutError")
                          ELSE Err("Io", "BrokenPipe")
                /\ trace' = Append(trace, [op |-> "send", socket |-> s,
                                           result |-> result])
            Connected(e) ==
                IF e.kind = "err"
                THEN /\ ret' = e
                     /\ trace' = Append(trace, [op |-> "send", socket |-> 0,
                                                result |-> connecting])
                     /\ UNCHANGED <<kitty, sockets>>
                ELSE /\ kitty' = e.val
                     /\ sockets' = IF IsNone(kitty.stream)
                                   THEN [sockets EXCEPT !.opened = @ + 1]
                                   ELSE sockets
                     /\ Written(Unwrap(e.val.stream),
                                IF Unwrap(e.val.stream) \in sockets.shut THEN "io"
                                ELSE io)
        IN  /\ Len(trace) < MaxOps
            /\ IsSome(kitty.stream) => connecting = "ok"
            /\ Connected(IF kitty.kind = "Kitty" THEN Ok(kitty)
                         ELSE ensure_connected(kitty, connecting, sockets.opened + 1))
            /\ fn' = "send"
            /\ UNCHANGED <<arg, STREAM_ID_COUNTER, call, sock, os, pool>>

\* receive(): a KittyClient without a stream returns ConnectionClosed; else
\* the reads on the stream give a reply, nothing before the peer closes, a
\* timeout or an io::Error.
Receive ==
    \E io \in {"ok", "eof", "timeout", "io"} :
        LET Done(s, result, r) ==
                /\ ret' = r
                /\ trace' = Append(trace, [op |-> "receive", socket |-> s,
                                           result |-> result])
        IN  /\ Len(trace) < MaxOps
            /\ IF IsNone(kitty.stream)
               THEN /\ io = "eof"
                    /\ Done(0, "closed", Err("ConnectionError", "ConnectionClosed"))
               ELSE IF io = "ok"
                   THEN Done(Unwrap(kitty.stream), "ok",
                             \* {"ok":true}
                             receive_end(PREFIX
                                 \o <<123, 34, 111, 107, 34, 58, 116, 114, 117, 101, 125>>
                                 \o SUFFIX))
               ELSE IF io = "eof"
                   THEN Done(Unwrap(kitty.stream), "closed", receive_end(<<>>))
               ELSE IF io = "timeout"
                   THEN Done(Unwrap(kitty.stream), "timeout",
                             Err("ConnectionError", "TimeoutError"))
               ELSE Done(Unwrap(kitty.stream), "io", Err("Io", "ConnectionReset"))
            /\ fn' = "receive"
            /\ UNCHANGED <<arg, STREAM_ID_COUNTER, kitty, call, sock, os,
                           sockets, pool>>

\* reconnect(): the stream the client has is shut down, then a new one is
\* connected.
Reconnect ==
    \E connecting \in {"ok", "timeout", "refused"} :
        LET Done(r) ==
                /\ ret' = r.ret
                /\ kitty' = r.self
        IN  /\ Len(trace) < MaxOps
            /\ Done(reconnect(kitty, connecting, sockets.opened + 1))
            /\ sockets' = [opened |-> IF connecting = "ok" THEN sockets.opened + 1
                                      ELSE sockets.opened,
                           shut |-> sockets.shut \cup {s \in 1..sockets.opened :
                                                        kitty.stream = Some(s)}]
            /\ trace' = Append(trace,
                               [op |-> "reconnect",
                                socket |-> IF IsSome(kitty.stream)
                                           THEN Unwrap(kitty.stream) ELSE 0,
                                result |-> connecting])
            /\ fn' = "reconnect"
            /\ UNCHANGED <<arg, STREAM_ID_COUNTER, call, sock, os, pool>>

\* close(): the stream the client has is shut down.
Close ==
    /\ Len(trace) < MaxOps
    /\ kitty' = close(kitty)
    /\ sockets' = [sockets EXCEPT !.shut = @ \cup {s \in 1..sockets.opened :
                                                     kitty.stream = Some(s)}]
    /\ trace' = Append(trace, [op |-> "close",
                               socket |-> IF IsSome(kitty.stream)
                                          THEN Unwrap(kitty.stream) ELSE 0,
                               result |-> "ok"])
    /\ ret' = Ok(<<>>)
    /\ fn' = "close"
    /\ UNCHANGED <<arg, STREAM_ID_COUNTER, call, sock, os, pool>>

NextLifecycle == Send \/ Receive \/ Reconnect \/ Close

SpecLifecycle == InitLifecycle /\ [][NextLifecycle]_vars
-----------------------------------------------------------------------------
(* A ConnectionPool used by two callers, one call at a time (acquire and     *)
(* release take &mut self).  call[c] holds the clients caller c has acquired *)
(* and not released; a caller may close a client it holds.  trace holds the  *)
(* last release: the client's object and whether the pool kept it.           *)

MaxSockets == 3

\* ConnectionPool::new(path), or ::new(path).with_max_size(max_size)
InitPool ==
    /\ fn = "new"
    /\ arg = [is |-> "pool"]
    /\ ret = NoResult
    /\ STREAM_ID_COUNTER = 1
    /\ kitty = Idle.kitty /\ sock = Idle.sock /\ trace = <<>> /\ os = Idle.os
    /\ sockets = Idle.sockets
    /\ call = [c \in {1, 2} |-> {}]
    /\ pool \in {[Idle.pool EXCEPT !.socket_path = <<47, 107>>, !.max_size = m] :
                    m \in {0, 1, 2, Idle.pool.max_size}}

\* pool.acquire() by caller c
Acquire ==
    \E c \in {1, 2}, connecting \in {"ok", "timeout", "refused"} :
        LET n == Len(pool.connections)
            connects == n = 0 \/ IsNone(pool.connections[n].stream)
            Done(r) ==
                /\ ret' = r.ret
                /\ pool' = r.self
                /\ call' = IF r.ret.kind = "ok"
                           THEN [call EXCEPT ![c] = @ \cup {r.ret.val}]
                           ELSE call
        IN  /\ IF connects THEN connecting = "ok" => sockets.opened < MaxSockets
               ELSE connecting = "ok"
            /\ Done(acquire(pool, connecting, sockets.opened + 1))
            /\ sockets' = IF connects /\ connecting = "ok"
                          THEN [sockets EXCEPT !.opened = @ + 1]
                          ELSE sockets
            /\ fn' = "acquire"
            /\ UNCHANGED <<arg, STREAM_ID_COUNTER, kitty, sock, trace, os>>

\* pool.release(client) by caller c, of a client it holds; a client the pool
\* does not keep is dropped, which closes its stream.
Release ==
    \E c \in {1, 2} :
        \E client \in call[c] :
            LET Done(after, kept) ==
                    /\ pool' = after
                    /\ trace' = <<[op |-> "release", obj |-> client.obj,
                                   result |-> IF kept THEN "kept" ELSE "dropped"]>>
                    /\ sockets' = IF kept \/ IsNone(client.stream) THEN sockets
                                  ELSE [sockets EXCEPT
                                            !.shut = @ \cup {Unwrap(client.stream)}]
            IN  /\ Done(release(pool, client),
                        Len(release(pool, client).connections) > Len(pool.connections))
                /\ call' = [call EXCEPT ![c] = @ \ {client}]
                /\ ret' = Ok(<<>>)
                /\ fn' = "release"
                /\ UNCHANGED <<arg, STREAM_ID_COUNTER, kitty, sock, os>>

\* client.close() by caller c, on a client it holds
CloseHeld ==
    \E c \in {1, 2} :
        \E client \in call[c] :
            /\ IsSome(client.stream)
            /\ call' = [call EXCEPT ![c] = (@ \ {client}) \cup {close(client)}]
            /\ sockets' = [sockets EXCEPT !.shut = @ \cup {Unwrap(client.stream)}]
            /\ ret' = Ok(<<>>)
            /\ fn' = "close"
            /\ UNCHANGED <<arg, STREAM_ID_COUNTER, kitty, sock, trace, os, pool>>

NextPool == Acquire \/ Release \/ CloseHeld

SpecPool == InitPool /\ [][NextPool]_vars
-----------------------------------------------------------------------------
(* Several calls, one after the other, on one connection: execute,           *)
(* execute_all and send_command write their request (the writes complete),   *)
(* the first two then receive; the peer answers the requests in order, each  *)
(* when it gets to it.                                                       *)

MaxCalls == 3

\* The frame the peer answers the request numbered k with:
\* {"ok":true,"data":"k"}
ReplyTo(k) ==
    PREFIX
    \o <<123, 34, 111, 107, 34, 58, 116, 114, 117, 101, 44,
         34, 100, 97, 116, 97, 34, 58, 34, 48 + k, 34, 125>>
    \o SUFFIX

\* A connected Kitty or KittyClient that has made no call yet.
InitReplies ==
    /\ fn = "none"
    /\ arg = NoResult
    /\ ret = NoResult
    /\ STREAM_ID_COUNTER = 1
    /\ kitty \in {KittyClient_connect(<<47, 114, 117, 110, 47, 107>>, "ok").val,
                  connect([socket_path |-> Some(<<47, 114, 117, 110, 47, 107>>),
                           password |-> None, public_key |-> None],
                          [connect |-> "ok",
                           store |-> [spawn |-> FALSE, success |-> FALSE,
                                      stdout |-> <<>>],
                           KITTY_PUBLIC_KEY |-> None, key_file |-> None]).val}
    /\ call = [Idle.call EXCEPT !.msg = 0]
    /\ sock = Idle.sock
    /\ trace = <<>>
    /\ os = Idle.os
    /\ sockets = Idle.sockets /\ pool = Idle.pool

\* The next call, its request numbered one more than the last: the request is
\* written, send_command returns, execute and execute_all go on to receive
\* with an empty buffer.  A request may ask for no response; one that is
\* executed does not.
Request ==
    \E op \in {"execute", "execute_all", "send_command"}, no_response \in BOOLEAN :
        LET k == call.msg + 1
        IN  /\ call.pc \in {"idle", "done"}
            /\ k <= MaxCalls
            /\ no_response => op = "send_command"
            /\ sock' = [sock EXCEPT
                            !.wire = Append(@, [id |-> k, no_response |-> no_response])]
            /\ call' = [op |-> op, msg |-> k, queue |-> <<>>, buffer |-> <<>>,
                        pc |-> IF op = "send_command" THEN "done" ELSE "receive",
                        ret |-> IF op = "send_command" THEN Ok(<<>>) ELSE NoResult]
            /\ trace' = Append(trace, <<op, k, no_response>>)
            /\ UNCHANGED <<fn, arg, ret, STREAM_ID_COUNTER, kitty, os,
                           sockets, pool>>

\* The peer gets to the oldest request it has and answers it, unless the
\* request asks for no response.
PeerAnswer ==
    /\ sock.wire # <<>>
    /\ sock' = [sock EXCEPT
                    !.wire = Tail(@),
                    !.inbox = IF Head(sock.wire).no_response THEN @
                              ELSE @ \o ReplyTo(Head(sock.wire).id)]
    /\ UNCHANGED <<fn, arg, ret, STREAM_ID_COUNTER, kitty, call, trace, os,
                   sockets, pool>>

NextReplies ==
    \/ Request
    \/ Read
    \/ PeerAnswer

SpecReplies == InitReplies /\ [][NextReplies]_vars
-----------------------------------------------------------------------------
(* kitty-pubkey-db: invocations of add, cleanup and get that run at the same *)
(* time on the database file and the epoch file.  `os` holds the clock, the  *)
(* processes there are in /proc and the two files; `call[c]` is what the     *)
(* invocation c has got to; `trace` lists the entries of the adds that have  *)
(* returned.  The database is held as its lines, each the DbEntry it parses  *)
(* to; all lines have the same length.                                       *)

MaxRuns == 3
MaxTicks == 1

Invocations == {1, 2}
KittyPids == {1, 2}

NoInvocation ==
    [cmd |-> "none", pc |-> "idle", pid |-> 0, entry |-> None, alive_entries |-> <<>>]

\* The entries of `entries` whose process is in /proc, in their order
\* (kitty-pubkey-db.rs:130-134).
alive(entries, running) ==
    LET is_process_running(entry) == entry.pid \in running
    IN  SelectSeq(entries, is_process_running)

\* The file after a write of `lines` at its start: what was there beyond them
\* stays.
Overwritten(file, lines) ==
    [i \in 1..(IF Len(file) > Len(lines) THEN Len(file) ELSE Len(lines)) |->
        IF i <= Len(lines) THEN lines[i] ELSE file[i]]

\* The entry max_by_key(|e| e.timestamp) yields: the last of those with the
\* greatest timestamp.
max_by_key(entries) ==
    LET at == CHOOSE i \in 1..Len(entries) :
                \A j \in 1..Len(entries) :
                    \/ entries[j].timestamp < entries[i].timestamp
                    \/ entries[j].timestamp = entries[i].timestamp /\ j <= i
    IN  entries[at]

\* get: what it prints to stdout and its exit code.
get(db, pid) ==
    LET OfPid(entry) == entry.pid = pid
        Found(entries) ==
            IF entries = <<>> THEN [stdout |-> None, code |-> 1]
            ELSE [stdout |-> Some(max_by_key(entries).pubkey), code |-> 0]
    IN  IF IsNone(db) THEN [stdout |-> None, code |-> 0]
        ELSE Found(SelectSeq(Unwrap(db), OfPid))

\* The files as init leaves them, or not there yet.
InitStore ==
    /\ fn = "none"
    /\ arg = NoResult
    /\ ret = NoResult
    /\ STREAM_ID_COUNTER = 1
    /\ kitty = Idle.kitty
    /\ call = [c \in Invocations |-> NoInvocation]
    /\ sock = Idle.sock
    /\ trace = <<>>
    /\ os \in {[now |-> 1000, ticks |-> 0, runs |-> 0, running |-> KittyPids,
                db |-> f.db, epoch |-> f.epoch] :
                  f \in {[db |-> None, epoch |-> None],
                         [db |-> Some(<<>>), epoch |-> Some(1000)]}}
    /\ sockets = Idle.sockets /\ pool = Idle.pool

\* An invocation returns; an add that returns has completed.
Returned(c) ==
    /\ call' = [call EXCEPT ![c] = NoInvocation]
    /\ trace' = IF call[c].cmd = "add" THEN Append(trace, Unwrap(call[c].entry))
                ELSE trace

\* `kitty-pubkey-db add pid pubkey` or `kitty-pubkey-db cleanup` is started;
\* the key of an add is numbered by the invocation.
Start(c) ==
    \E cmd \in {"add", "cleanup"}, pid \in KittyPids :
        /\ call[c].pc = "idle"
        /\ os.runs < MaxRuns
        /\ cmd = "add" => pid \in os.running
        /\ cmd = "cleanup" => pid = 1
        /\ call' = [call EXCEPT ![c] =
                        [NoInvocation EXCEPT !.cmd = cmd,
                                             !.pc = IF cmd = "add" THEN "append" ELSE "epoch",
                                             !.pid = IF cmd = "add" THEN pid ELSE 0]]
        /\ os' = [os EXCEPT !.runs = @ + 1]
        /\ UNCHANGED <<fn, arg, ret, STREAM_ID_COUNTER, kitty, sock, trace,
                       sockets, pool>>

\* add up to its flush: the line is appended to the file, which is created
\* if it is not there.
AddAppend(c) ==
    LET entry == [pid |-> call[c].pid, window_id |-> <<>>,
                  pubkey |-> <<48 + os.runs>>, timestamp |-> os.now]
    IN  /\ call[c].pc = "append"
        /\ os' = [os EXCEPT !.db = Some((IF IsNone(@) THEN <<>> ELSE Unwrap(@))
                                        \o <<entry>>)]
        /\ call' = [call EXCEPT ![c].pc = "check", ![c].entry = Some(entry)]
        /\ UNCHANGED <<fn, arg, ret, STREAM_ID_COUNTER, kitty, sock, trace,
                       sockets, pool>>

\* check_and_cleanup_if_needed: without an epoch file it writes one; with one
\* 86400 seconds old or more it goes on to cleanup.
AddCheck(c) ==
    /\ call[c].pc = "check"
    /\ IF IsNone(os.epoch)
       THEN os' = [os EXCEPT !.epoch = Some(os.now)] /\ Returned(c)
       ELSE IF os.now - Unwrap(os.epoch) >= 86400
       THEN /\ call' = [call EXCEPT ![c].pc = "epoch"]
            /\ UNCHANGED <<os, trace>>
       ELSE UNCHANGED os /\ Returned(c)
    /\ UNCHANGED <<fn, arg, ret, STREAM_ID_COUNTER, kitty, sock, sockets, pool>>

\* cleanup writes the current time to the epoch file.
CleanupEpoch(c) ==
    /\ call[c].pc = "epoch"
    /\ os' = [os EXCEPT !.epoch = Some(os.now)]
    /\ call' = [call EXCEPT ![c].pc = "read"]
    /\ UNCHANGED <<fn, arg, ret, STREAM_ID_COUNTER, kitty, sock, trace,
                   sockets, pool>>

\* cleanup returns if there is no database; otherwise it reads the file and
\* keeps the entries of the processes that are running.
CleanupRead(c) ==
    /\ call[c].pc = "read"
    /\ IF IsNone(os.db) THEN Returned(c)
       ELSE /\ call' = [call EXCEPT ![c].pc = "create",
                                    ![c].alive_entries =
                                        alive(Unwrap(os.db), os.running)]
            /\ UNCHANGED trace
    /\ UNCHANGED <<fn, arg, ret, STREAM_ID_COUNTER, kitty, sock, os,
                   sockets, pool>>

\* File::create truncates the file.
CleanupCreate(c) ==
    /\ call[c].pc = "create"
    /\ os' = [os EXCEPT !.db = Some(<<>>)]
    /\ call' = [call EXCEPT ![c].pc = "write"]
    /\ UNCHANGED <<fn, arg, ret, STREAM_ID_COUNTER, kitty, sock, trace,
                   sockets, pool>>

\* cleanup writes the entries it kept, from the start of the file, and
\* returns.
CleanupWrite(c) ==
    /\ call[c].pc = "write"
    /\ os' = [os EXCEPT !.db = Some(Overwritten(Unwrap(@), call[c].alive_entries))]
    /\ Returned(c)
    /\ UNCHANGED <<fn, arg, ret, STREAM_ID_COUNTER, kitty, sock, sockets, pool>>

\* `kitty-pubkey-db get pid`, which reads the file once.
Get ==
    \E pid \in KittyPids :
        /\ os.runs < MaxRuns
        /\ fn' = "get"
        /\ arg' = pid
        /\ ret' = get(os.db, pid)
        /\ os' = [os EXCEPT !.runs = @ + 1]
        /\ UNCHANGED <<STREAM_ID_COUNTER, kitty, call, sock, trace, sockets, pool>>

\* A second passes, or a day.
TimePasses ==
    \E seconds \in {1, 86400} :
        /\ os.ticks < MaxTicks
        /\ os' = [os EXCEPT !.now = @ + seconds, !.ticks = @ + 1]
        /\ UNCHANGED <<fn, arg, ret, STREAM_ID_COUNTER, kitty, call, sock, trace,
                       sockets, pool>>

\* A kitty exits.
Exit ==
    \E pid \in os.running :
        /\ os' = [os EXCEPT !.running = @ \ {pid}]
        /\ UNCHANGED <<fn, arg, ret, STREAM_ID_COUNTER, kitty, call, sock, trace,
                       sockets, pool>>

NextStore ==
    \/ \E c \in Invocations :
        \/ Start(c)
        \/ AddAppend(c)
        \/ AddCheck(c)
        \/ CleanupEpoch(c)
        \/ CleanupRead(c)
        \/ CleanupCreate(c)
        \/ CleanupWrite(c)
    \/ Get
    \/ TimePasses
    \/ Exit

SpecStore == InitStore /\ [][NextStore]_vars
-----------------------------------------------------------------------------
(* Properties of the codec (SpecCodec) *)

\* The bytes of a frame between the prefix and the suffix.
FrameBody(data) == SubSeq(data, Len(PREFIX) + 1, Len(data) - Len(SUFFIX))

\* The keys of the fields of m that are present, in declaration order.
PresentKeys(m) ==
    <<Key.cmd, Key.version>>
    \o (IF IsSome(m.no_response) THEN <<Key.no_response>> ELSE <<>>)
    \o (IF IsSome(m.kitty_window_id) THEN <<Key.kitty_window_id>> ELSE <<>>)
    \o (IF IsSome(m.payload) THEN <<Key.payload>> ELSE <<>>)
    \o (IF IsSome(m.async_id) THEN <<Key.async_id>> ELSE <<>>)
    \o (IF IsSome(m.cancel_async) THEN <<Key.cancel_async>> ELSE <<>>)
    \o (IF IsSome(m.stream_id) THEN <<Key.stream_id>> ELSE <<>>)
    \o (IF IsSome(m.stream) THEN <<Key.stream>> ELSE <<>>)

\* The keys of a parsed object, in document order.
KeysOf(tree) == [i \in 1..Len(tree.o) |-> tree.o[i].k]

\* {"cmd":"ls","version":[0,43,1]}
Body_ls ==
    <<123, 34, 99, 109, 100, 34, 58, 34, 108, 115, 34, 44, 34, 118, 101, 114, 115,
      105, 111, 110, 34, 58, 91, 48, 44, 52, 51, 44, 49, 93, 125>>

\* [true,null,null]
Body_array3 ==
    <<91, 116, 114, 117, 101, 44, 110, 117, 108, 108, 44, 110, 117, 108, 108, 93>>

\* C1: for every KittyMessage e, whatever optional fields are present and
\* whatever the payload value (null included), KittyMessage::decode of
\* KittyMessage::encode(e) succeeds and returns a message equal to e in every
\* field.
C1_RoundTrip == fn = "decode_encoded" => ret = Ok(arg.v)

\* C1, the input that breaks it: a message whose payload is Some(Value::Null)
\* is encoded with "payload":null and decoded with payload None.
C1_NullPayloadLost ==
    /\ fn = "decode_encoded"
    /\ arg.v.payload = Some(JNull)
    /\ ret.kind = "ok"
    /\ ret.val.payload = None
    /\ ret.val # arg.v

\* C2 for one parsed body: one JSON object whose keys are those of the present
\* fields of m, in declaration order.
C2_ObjectOf(m, tree) ==
    /\ IsSome(tree)
    /\ Unwrap(tree).t = "obj"
    /\ KeysOf(Unwrap(tree)) = PresentKeys(m)

\* C2: KittyMessage::encode outputs the prefix, then one JSON object whose keys
\* are cmd, version, no_response, kitty_window_id, payload, async_id,
\* cancel_async, stream_id, stream in this order with every absent optional
\* field left out, then the suffix; for cmd "ls", version [0,43,1] and no
\* optional field the body is exactly {"cmd":"ls","version":[0,43,1]}.
C2_EncodeLayout ==
    fn = "encode" =>
        /\ ret.kind = "ok"
        /\ Len(ret.val) >= Len(PREFIX) + Len(SUFFIX)
        /\ StartsWith(ret.val, PREFIX)
        /\ EndsWith(ret.val, SUFFIX)
        /\ C2_ObjectOf(arg.v, ParseJson(FrameBody(ret.val)))
        /\ (arg.v = KittyMessage(S_ls, <<0, 43, 1>>)
                => ret.val = PREFIX \o Body_ls \o SUFFIX)

\* C2, its case: a message with some optional fields present and the others
\* absent has been encoded.
C2_SomeFieldsAbsent ==
    /\ fn = "encode"
    /\ ret.kind = "ok"
    /\ IsNone(arg.v.no_response) /\ IsNone(arg.v.async_id) /\ IsNone(arg.v.stream)
    /\ IsSome(arg.v.kitty_window_id) /\ IsSome(arg.v.payload)
    /\ IsSome(arg.v.cancel_async) /\ IsSome(arg.v.stream_id)

\* The input lacks the framing: no exact prefix, no exact suffix, or not UTF-8.
Unframed(data) ==
    ~StartsWith(data, PREFIX) \/ ~EndsWith(data, SUFFIX) \/ ~Utf8Valid(data)

\* C3 for a response body: valid JSON that is not an object is rejected with
\* the envelope error, not with the error of the shape validation.
C3_NonObjectRejected(tree) ==
    (IsSome(tree) /\ Unwrap(tree).t # "obj")
        => ret = Err("ProtocolError", "EnvelopeParseError")

\* C3: KittyMessage::decode and KittyResponse::decode return an error, never a
\* success and never a panic, for every input without the exact prefix, without
\* the exact suffix or not valid UTF-8, inputs shorter than prefix plus suffix
\* included; KittyResponse::decode also rejects a body that is valid JSON but
\* not an object, before the shape of a response is validated.
C3_FramingRejected ==
    fn \in {"KittyMessage_decode", "KittyResponse_decode"} =>
        /\ ret.kind # "panic"
        /\ Unframed(arg.v) => ret.kind = "err"
        /\ (fn = "KittyResponse_decode" /\ ~Unframed(arg.v))
                => C3_NonObjectRejected(ParseJson(FrameBody(arg.v)))

\* C3, its case: a framed response whose body is an array of three values (the
\* sequence form of a KittyResponse) has been rejected as not an object.
C3_ArrayBodyRejected ==
    /\ fn = "KittyResponse_decode"
    /\ arg.v = PREFIX \o Body_array3 \o SUFFIX
    /\ ret = Err("ProtocolError", "EnvelopeParseError")


\* C20: the output of encode holds the suffix ESC \ exactly once, as its
\* last two bytes, and no ESC byte in the JSON text between prefix and suffix,
\* whatever the strings of the message hold.
C20_SuffixOnlyAtEnd ==
    (fn = "encode" /\ ret.kind = "ok") =>
        /\ {i \in 1..(Len(ret.val) - 1) : SubSeq(ret.val, i, i + 1) = SUFFIX}
              = {Len(ret.val) - 1}
        /\ \A i \in (Len(PREFIX) + 1)..(Len(ret.val) - Len(SUFFIX)) : ret.val[i] # 27

\* C20, reached: a message whose cmd and payload hold ESC after a backslash
\* has been encoded.
C20_EscInStrings ==
    /\ fn = "encode"
    /\ ret.kind = "ok"
    /\ arg.v.cmd = S_tricky
    /\ arg.v.payload = Some(JStr(S_tricky))
    /\ \E i \in 1..(Len(S_tricky) - 1) : S_tricky[i] = 92 /\ S_tricky[i + 1] = 27
-----------------------------------------------------------------------------
(* Properties of the chunking (SpecChunks) *)

\* The places of the string fields in the payload object of m.
StringFields(m) ==
    {i \in 1..Len(Unwrap(m.payload).o) : Unwrap(m.payload).o[i].v.t = "str"}

\* The length of the only string field of the payload object of m.
OnlyStringLen(m) ==
    LET obj == Unwrap(m.payload).o
    IN  Len(obj[CHOOSE i \in 1..Len(obj) : obj[i].v.t = "str"].v.s)

\* C4 for the chunks of a string of L > MAX_CHUNK_SIZE bytes: ceil(L/4096)
\* content chunks numbered 0, 1, 2, ... and then one terminator with empty
\* data, all with stream = true and one stream_id.
C4_Streamed(L, chunks) ==
    LET n == (L + MAX_CHUNK_SIZE - 1) \div MAX_CHUNK_SIZE
    IN  /\ Len(chunks) = n + 1
        /\ \A i \in 1..(n + 1) :
                /\ chunks[i].stream = Some(TRUE)
                /\ IsSome(chunks[i].stream_id)
                /\ chunks[i].stream_id = chunks[1].stream_id
                /\ IsSome(chunks[i].payload)
                /\ Unwrap(chunks[i].payload).t = "obj"
                /\ MapHas(Unwrap(chunks[i].payload).o, Key.data)
        /\ \A i \in 1..n :
                /\ MapHas(Unwrap(chunks[i].payload).o, Key.chunk_num)
                /\ MapGet(Unwrap(chunks[i].payload).o, Key.chunk_num) = JNum(i - 1)
                /\ MapGet(Unwrap(chunks[i].payload).o, Key.data) # JStr(<<>>)
        /\ MapGet(Unwrap(chunks[n + 1].payload).o, Key.data) = JStr(<<>>)
        /\ ~MapHas(Unwrap(chunks[n + 1].payload).o, Key.chunk_num)

\* C4: for a payload object whose only string field has L bytes: if L <= 4096
\* then needs_streaming is false and into_chunks returns the one original
\* envelope unchanged; if L > 4096 then into_chunks returns ceil(L/4096)
\* content chunks and then exactly one terminator chunk whose data is the empty
\* string, every chunk has stream = true and the same stream_id, and the
\* content chunks carry chunk_num 0, 1, 2, ... in emission order.
C4_ChunkThreshold ==
    Cardinality(StringFields(arg.v)) = 1 =>
        /\ fn = "needs_streaming" =>
                ret = Ok(OnlyStringLen(arg.v) > MAX_CHUNK_SIZE)
        /\ (fn = "into_chunks" /\ OnlyStringLen(arg.v) <= MAX_CHUNK_SIZE) =>
                ret = Ok(<<arg.v>>)
        /\ (fn = "into_chunks" /\ OnlyStringLen(arg.v) > MAX_CHUNK_SIZE) =>
                /\ ret.kind = "ok"
                /\ C4_Streamed(OnlyStringLen(arg.v), ret.val)

\* C4, its case: a string of 4097 bytes has been split into two content chunks
\* and the terminator.
C4_OneByteOver ==
    /\ fn = "into_chunks"
    /\ OnlyStringLen(arg.v) = MAX_CHUNK_SIZE + 1
    /\ Len(ret.val) = 3


\* The places of the oversized string fields in the payload object of m.
OversizedFields(m) ==
    {i \in StringFields(m) : Len(Unwrap(m.payload).o[i].v.s) > MAX_CHUNK_SIZE}

\* The data fields of the content chunks (those with a chunk_num), in the
\* order of chunk_num, joined.
JoinedData(chunks) ==
    LET content == SelectSeq(chunks,
                       LAMBDA c : MapHas(Unwrap(c.payload).o, Key.chunk_num))
    IN  Concat([n \in 1..Len(content) |->
            MapGet(Unwrap(content[CHOOSE i \in 1..Len(content) :
                        MapGet(Unwrap(content[i].payload).o, Key.chunk_num)
                            = JNum(n - 1)].payload).o, Key.data).s])

\* C21, the part about the split: of two or more oversized strings only the
\* first in the order of the map is split.
C21_FirstOnlySplit ==
    (fn = "into_chunks" /\ Cardinality(OversizedFields(arg.v)) >= 2) =>
        LET first == CHOOSE i \in OversizedFields(arg.v) : \A j \in OversizedFields(arg.v) : i <= j
            s == Unwrap(arg.v.payload).o[first].v.s
        IN  /\ Len(ret.val) = (Len(s) + MAX_CHUNK_SIZE - 1) \div MAX_CHUNK_SIZE + 1
            /\ JoinedData(ret.val) = s

\* C21: when two or more strings of the payload are oversized only the first
\* is split, and every other field of the payload is still there, with the
\* value it had, in an envelope into_chunks returns.
C21_OthersPassThrough ==
    /\ C21_FirstOnlySplit
    /\ (fn = "into_chunks" /\ Cardinality(OversizedFields(arg.v)) >= 2) =>
        LET obj == Unwrap(arg.v.payload).o
            first == CHOOSE i \in OversizedFields(arg.v) : \A j \in OversizedFields(arg.v) : i <= j
        IN  \A i \in (1..Len(obj)) \ {first} :
                \E n \in 1..Len(ret.val) :
                    /\ MapHas(Unwrap(ret.val[n].payload).o, obj[i].k)
                    /\ MapGet(Unwrap(ret.val[n].payload).o, obj[i].k) = obj[i].v

\* C21, reached: a payload with two oversized strings and a short one is
\* split, and no envelope holds anything but data and chunk_num.
C21_OtherFieldsDropped ==
    /\ fn = "into_chunks"
    /\ Cardinality(OversizedFields(arg.v)) = 2
    /\ Len(Unwrap(arg.v.payload).o) = 3
    /\ \A n \in 1..Len(ret.val) :
            \A i \in 1..Len(Unwrap(ret.val[n].payload).o) :
                Unwrap(ret.val[n].payload).o[i].k \in {Key.data, Key.chunk_num}

\* C25: the data fields of the content chunks, joined in the order of
\* chunk_num, are the oversized string that was split, byte for byte.
C25_ChunksJoinToString ==
    (fn = "into_chunks" /\ OversizedFields(arg.v) # {}) =>
        JoinedData(ret.val)
            = Unwrap(arg.v.payload).o[CHOOSE i \in OversizedFields(arg.v) :
                                        \A j \in OversizedFields(arg.v) : i <= j].v.s

\* C25, reached: a character of two bytes lies across the end of the first
\* slice, and the first chunk ends with U+FFFD (3 bytes) in place of its
\* first byte.
C25_CharacterCutInTwo ==
    /\ fn = "into_chunks"
    /\ OversizedFields(arg.v) = {1}
    /\ SubSeq(Unwrap(arg.v.payload).o[1].v.s, MAX_CHUNK_SIZE, MAX_CHUNK_SIZE + 1)
            = <<195, 169>>
    /\ EndsWith(MapGet(Unwrap(ret.val[1].payload).o, Key.data).s, <<239, 191, 189>>)
    /\ Len(MapGet(Unwrap(ret.val[1].payload).o, Key.data).s) = MAX_CHUNK_SIZE + 2

\* C25 for the strings it holds for: those that are ASCII.
C25_AsciiChunksJoin ==
    (/\ fn = "into_chunks"
     /\ OversizedFields(arg.v) # {}
     /\ \A i \in OversizedFields(arg.v) :
            \A k \in 1..Len(Unwrap(arg.v.payload).o[i].v.s) :
                Unwrap(arg.v.payload).o[i].v.s[k] < 128) =>
        C25_ChunksJoinToString
-----------------------------------------------------------------------------
(* Properties of the key resolution (SpecConnect) *)

\* The key the PID store supplies: the output of a store that ran and
\* succeeded for the PID of the socket file name, if it is text and not blank.
StoreKey(builder, env) ==
    LET Supplied(pid, r) ==
            IF IsSome(pid) /\ r.kind = "ok" THEN r.val ELSE None
    IN  Supplied(extract_pid_from_socket(Unwrap(builder.socket_path)),
                 query_public_key_database(0, env.store))

\* C10 for the key that the order explicit key, PID store key, KITTY_PUBLIC_KEY
\* resolves to: connect fails if there is none, and else ends as an Encryptor
\* made of that key does.
C10_ResolvedTo(key) ==
    IF IsNone(key) THEN ret.kind = "err"
    ELSE LET KeyOf(e) ==
                /\ ret.kind = e.kind
                /\ e.kind = "ok" => ret.val.encryptor = Some(e.val)
         IN  KeyOf(new_with_public_key(key, [KITTY_PUBLIC_KEY |-> None,
                                             key_file |-> None]))

\* C10: with a password configured, connect resolves the peer public key in
\* this order: the explicitly supplied key if present; otherwise the key the
\* PID store returns for the PID of the socket file name; otherwise, whenever
\* the PID store yields no key for any reason, the KITTY_PUBLIC_KEY value; and
\* when none of the three supplies a key, connect fails with an error.
C10_KeyResolution ==
    (/\ fn = "connect"
     /\ IsSome(arg.builder.socket_path)
     /\ arg.env.connect = "ok"
     /\ IsSome(arg.builder.password)) =>
        C10_ResolvedTo(
            IF IsSome(arg.builder.public_key) THEN arg.builder.public_key
            ELSE IF IsSome(StoreKey(arg.builder, arg.env))
                THEN StoreKey(arg.builder, arg.env)
            ELSE arg.env.KITTY_PUBLIC_KEY)

\* C10, the input that breaks it: no explicit key, a socket named after a PID,
\* a kitty-pubkey-db that cannot be run and a valid KITTY_PUBLIC_KEY: connect
\* fails with the error of the store.
C10_StoreFailureAborts ==
    /\ fn = "connect"
    /\ IsSome(arg.builder.password)
    /\ IsNone(arg.builder.public_key)
    /\ ~arg.env.store.spawn
    /\ arg.env.KITTY_PUBLIC_KEY = Some(KeyString(30))
    /\ ret = Err("EncryptionError", "PublicKeyDatabaseError")


\* The value under "payload" in the JSON body of a frame, if there is one.
FramePayload(data) ==
    LET Of(v) == IF v.t = "obj" /\ MapHas(v.o, Key.payload)
                 THEN Some(MapGet(v.o, Key.payload)) ELSE None
    IN  Of(ToValue(Unwrap(ParseJson(FrameBody(data)))))

\* C14: without a password connect returns a client without an Encryptor
\* whatever the explicit key, the PID store and KITTY_PUBLIC_KEY are (none of
\* them can make it fail), and every frame that client sends is the prefix, a
\* JSON text and the suffix, with the payload of the message as it was given
\* (none if none was given); with a password a client that connect returns
\* has an Encryptor.
C14_PlainWithoutPassword ==
    /\ (/\ fn = "connect"
        /\ IsNone(arg.builder.password)
        /\ IsSome(arg.builder.socket_path)
        /\ arg.env.connect = "ok") =>
            /\ ret.kind = "ok"
            /\ IsNone(ret.val.encryptor)
    /\ (fn = "connect" /\ ret.kind = "ok" /\ IsSome(arg.builder.password)) =>
            IsSome(ret.val.encryptor)
    /\ (fn \in {"send", "send_all"} /\ IsNone(arg.builder.password)) =>
            /\ IsNone(ret.val.self.encryptor)
            /\ \A i \in 1..Len(ret.val.frames) :
                  /\ StartsWith(ret.val.frames[i], PREFIX)
                  /\ EndsWith(ret.val.frames[i], SUFFIX)
                  /\ FramePayload(ret.val.frames[i]) = ret.val.message.payload

\* C14, reached: no password, an explicit key that is no key and a store
\* that cannot be run; send_all writes a frame with the payload as given.
C14_SentPlainDespiteBadKey ==
    /\ fn = "send_all"
    /\ IsNone(arg.builder.password)
    /\ arg.builder.public_key = Some(<<107, 101, 121>>)
    /\ ~arg.env.store.spawn
    /\ IsSome(ret.val.message.payload)
    /\ Len(ret.val.frames) = 1
    /\ FramePayload(ret.val.frames[1]) = ret.val.message.payload

-----------------------------------------------------------------------------
(* Properties of the clients against a peer (Spec) *)

\* The last socket operation of the call so far.
LastOp == IF trace = <<>> THEN <<"none", "none">> ELSE trace[Len(trace)]

\* The frame of chunk i of call.msg as the client frames it: chunk i of
\* into_chunks (the call is the first to take a stream id), for a Kitty with the
\* clock and rng of the i-th turn of the loop of send_all.
C5_Frame(i) ==
    LET At == IF Tick(kitty, Idle.os) = Idle.os THEN Idle.os
              ELSE [now |-> Idle.os.now + 2 * (i - 1),
                    rng |-> Idle.os.rng + 4 * (i - 1)]
    IN  send_data(kitty, send_all_item(kitty, into_chunks(call.msg, 1).chunks[i], At),
                  Tick(kitty, At))

\* C5: execute_all writes the frames of all chunks of the request in chunk
\* order, the terminator chunk last, with no read between the writes, then
\* performs exactly one receive and returns at most one response; if a write
\* fails, the remaining chunks are not written and no receive is performed.
\* (A frame is compared where its write has just returned: the wire grows by
\* completed writes only.)
C5_ExecuteAllOrder ==
    call.op = "execute_all" =>
        LET written == Len(sock.wire)
            Ordered(chunks) ==
                /\ written <= Len(chunks)
                \* receive is entered once, when and only when all are written
                /\ Cardinality({j \in 1..Len(trace) : trace[j][1] = "receive"})
                      = IF written = Len(chunks) THEN 1 ELSE 0
                \* a failed write ends the call with its error
                /\ \A j \in 1..Len(trace) :
                      (trace[j][1] = "write" /\ trace[j][2] # "ok") =>
                          /\ j = Len(trace)
                          /\ written < Len(chunks)
                          /\ call.pc = "done" /\ call.ret.kind = "err"
                \* the last chunk is the terminator: the one with empty data
                /\ needs_streaming(call.msg) =>
                      chunks[Len(chunks)].payload
                          = Some(JObj(<<Entry(Key.data, JStr(<<>>))>>))
                \* a frame of a client that does not encrypt reads back as its chunk
                /\ (LastOp[1] \in {"write", "receive"}
                        /\ Tick(kitty, Idle.os) = Idle.os) =>
                      \A i \in 1..written :
                          KittyMessage_decode(sock.wire[i]) = Ok(chunks[i])
        IN  /\ Ordered(into_chunks(call.msg, 1).chunks)
            /\ (LastOp[1] \in {"write", "receive"} /\ written > 0) =>
                  sock.wire[written] = C5_Frame(written)
            /\ written = Cardinality({j \in 1..Len(trace) : trace[j] = <<"write", "ok">>})
            \* a write follows completed writes only: no read, no receive before it
            /\ \A j \in 1..Len(trace) :
                  trace[j][1] = "write" =>
                      \A i \in 1..(j - 1) : trace[i] = <<"write", "ok">>
            \* every read is a read of the receive
            /\ \A j \in 1..Len(trace) :
                  trace[j][1] = "read" =>
                      \E i \in 1..(j - 1) : trace[i][1] = "receive"
            \* a response comes from the receive
            /\ (call.pc = "done" /\ call.ret.kind = "ok") => LastOp[1] = "read"

\* C5, reached: a request of three chunks written and answered.
C5_ThreeChunksAnswered ==
    /\ call.op = "execute_all"
    /\ Len(sock.wire) = 3
    /\ call.pc = "done"
    /\ call.ret.kind = "ok"

\* C6: execute, given a message for which needs_streaming is true, sends it
\* as the chunk sequence of into_chunks and never as one oversized frame,
\* before it reads the response.
C6_ExecuteSplits ==
    (call.op = "execute" /\ needs_streaming(call.msg)) =>
        /\ \A i \in 1..Len(sock.wire) :
              ~needs_streaming(KittyMessage_decode(sock.wire[i]).val)
        /\ call.pc = "receive" =>
              Len(sock.wire) = Len(into_chunks(call.msg, 1).chunks)

\* C6, the input that breaks it: execute of a send-text whose data is one byte
\* over MAX_CHUNK_SIZE has written one frame and is about to read.
C6_OversizedFrameWritten ==
    /\ call.op = "execute"
    /\ needs_streaming(call.msg)
    /\ call.pc = "receive"
    /\ Len(sock.wire) = 1
    /\ needs_streaming(KittyMessage_decode(sock.wire[1]).val)

\* The response a complete reply decodes to, if it is one of the two replies
\* {"ok":true} and {"ok":false,"error":"bad"} in their frame.
C7_Reply(bytes) ==
    IF bytes = PREFIX \o <<123, 34, 111, 107, 34, 58, 116, 114, 117, 101, 125>>
                      \o SUFFIX
    THEN Some([ok |-> TRUE, data |-> None, error |-> None])
    ELSE IF bytes = PREFIX \o <<123, 34, 111, 107, 34, 58, 102, 97, 108, 115, 101,
                                44, 34, 101, 114, 114, 111, 114, 34, 58, 34, 98,
                                97, 100, 34, 125>> \o SUFFIX
    THEN Some([ok |-> FALSE, data |-> None, error |-> Some(<<98, 97, 100>>)])
    ELSE None

\* C7: every outcome of connect, execute and execute_all falls in one class: a
\* timeout of connect, write or read is ConnectionError::TimeoutError; a
\* transport failure (refused, not found, peer closed) is a connection or I/O
\* error and never a ProtocolError; response bytes that cannot be decoded are
\* a ProtocolError; a reply with ok=false and an error string is returned as
\* a KittyResponse with ok=false.
C7_OutcomeClasses ==
    call.pc = "done" =>
        /\ LastOp[2] = "timeout" =>
              call.ret = Err("ConnectionError", "TimeoutError")
        /\ LastOp[2] \in {"refused", "notfound", "io", "eof"} =>
              /\ call.ret.kind = "err"
              /\ call.ret.err \in {"ConnectionError", "Io"}
        /\ LastOp = <<"read", "data">> =>
              IF IsSome(C7_Reply(call.buffer))
              THEN call.ret = Ok(Unwrap(C7_Reply(call.buffer)))
              ELSE call.ret.kind = "err" /\ call.ret.err = "ProtocolError"

\* C7, the outcome that breaks it: the peer closed inside its reply and the
\* call returned a ProtocolError.
C7_PeerClosedAsProtocolError ==
    /\ call.pc = "done"
    /\ LastOp = <<"read", "eof">>
    /\ sock.peer = "closed"
    /\ call.ret.kind = "err"
    /\ call.ret.err = "ProtocolError"

\* C8: if the first read of receive returns zero bytes, receive returns
\* ConnectionError::ConnectionClosed and never a response, in Kitty and in
\* KittyClient.
C8_ClosedBeforeReply ==
    (/\ call.pc = "done"
     /\ LastOp = <<"read", "eof">>
     /\ \A j \in 1..Len(trace) : trace[j] # <<"read", "data">>) =>
        call.ret = Err("ConnectionError", "ConnectionClosed")

\* C8, reached: the request was written, the peer closed without a byte, and
\* the only read returned 0.
C8_PeerClosedFirst ==
    /\ call.pc = "done"
    /\ trace = <<<<"write", "ok">>, <<"receive", "enter">>, <<"read", "eof">>>>
    /\ call.buffer = <<>>

\* C9: if the peer closes after receive has accumulated at least one byte and
\* before the buffer ends with the suffix, receive reports
\* ConnectionError::ConnectionClosed, not a decode error and not a response.
C9_ClosedMidFrame ==
    (/\ call.pc = "done"
     /\ LastOp = <<"read", "eof">>
     /\ \E j \in 1..Len(trace) : trace[j] = <<"read", "data">>) =>
        call.ret = Err("ConnectionError", "ConnectionClosed")

\* C9, the input that breaks it: the peer sent its reply but for the last byte
\* and closed; receive decoded the truncated buffer.
C9_TruncatedBufferDecoded ==
    /\ call.pc = "done"
    /\ LastOp = <<"read", "eof">>
    /\ call.buffer # <<>>
    /\ ~EndsWith(call.buffer, SUFFIX)
    /\ call.ret = Err("ProtocolError", "EnvelopeParseError")

\* The last two bytes of b are ESC and \.
SuffixAtEnd(b) == Len(b) >= 2 /\ b[Len(b) - 1] = 27 /\ b[Len(b)] = 92

\* The reads of the call so far that gave data.
DataReads == {j \in 1..Len(trace) : trace[j] = <<"read", "data">>}

\* C24: however the bytes of a reply arrive, receive goes on reading while
\* the buffer does not end with the suffix and stops at the read after which
\* it does: the call is over, that read is its last, and the result is the
\* decoding of the whole buffer (of the whole frame, if the peer sent one).
C24_StopsAtSuffix ==
    /\ call.pc = "receive" => ~SuffixAtEnd(call.buffer)
    /\ (call.pc = "done" /\ LastOp = <<"read", "data">>) =>
            /\ SuffixAtEnd(call.buffer)
            /\ \A j \in DataReads : \A i \in (j + 1)..Len(trace) : trace[i][1] = "read"
            /\ call.ret = KittyResponse_decode(call.buffer)
            /\ call.buffer = SubSeq(sock.script, 1, Len(call.buffer))
            /\ (StartsWith(sock.script, PREFIX) /\ sock.inbox = <<>>
                    /\ sock.sent = Len(sock.script)) =>
                    call.ret = KittyResponse_decode(sock.script)

\* C24, reached: a reply has arrived in three reads, the last of which gave
\* the last byte of the suffix alone, and is returned.
C24_SuffixInTwoReads ==
    /\ call.pc = "done"
    /\ call.ret.kind = "ok"
    /\ Cardinality(DataReads) = 3
    /\ call.buffer = sock.script

\* C29: every turn of the read loop appends at least one byte to the buffer
\* or ends the call; the loop is left once the buffer ends with the suffix;
\* and a receive that has begun always ends, the peer sending no more than
\* its reply.
C29_ReceiveTerminates ==
    /\ [][Read => (Len(call'.buffer) > Len(call.buffer) \/ call'.pc = "done")]_vars
    /\ [](call.pc = "receive" => ~SuffixAtEnd(call.buffer))
    /\ (call.pc = "receive") ~> (call.pc = "done")

\* C29, reached: a receive has ended by the timeout after two reads that
\* gave data.
C29_TimeoutAfterData ==
    /\ call.pc = "done"
    /\ LastOp = <<"read", "timeout">>
    /\ Cardinality(DataReads) = 2

-----------------------------------------------------------------------------
(* Properties of the Encryptor (SpecEncrypt) *)

\* The string under key k of an envelope, or <<>> if there is none.
Field(envelope, k) ==
    IF envelope.t = "obj" /\ MapHas(envelope.o, k) /\ MapGet(envelope.o, k).t = "str"
    THEN MapGet(envelope.o, k).s
    ELSE <<>>

\* What the peer that owns kitty_public_key reads in an envelope: the secret
\* behind pubkey, the key both sides derive, the cleartext under encrypted,
\* and whether tag is the tag of that cleartext.
Opened(envelope, kitty_public_key) ==
    LET iv == Unwrap(base85_decode(Field(envelope, <<105, 118>>)))
        pubkey == Unwrap(base85_decode(Field(envelope, <<112, 117, 98, 107, 101, 121>>)))
        tag == Unwrap(base85_decode(Field(envelope, <<116, 97, 103>>)))
        data == Unwrap(base85_decode(Field(envelope,
                    <<101, 110, 99, 114, 121, 112, 116, 101, 100>>)))
        key == [i \in 1..32 |->
                    (((((pubkey[i] + 247) * 171) % 256) + kitty_public_key[i]) * 5 + 1)
                        % 256]
    IN  [iv |-> iv, pubkey |-> pubkey, tag |-> tag,
         cleartext |-> [i \in 1..Len(data) |->
                            (data[i] + 512 - key[((i - 1) % 32) + 1]
                                - iv[((i - 1) % 12) + 1]) % 256] \o <<>>,
         tag_ok |-> tag = [i \in 1..16 |->
                            (key[i] + iv[((i - 1) % 12) + 1] + Len(data)) % 256] \o <<>>]

\* C11: over any sequence of encrypt_command calls on one Encryptor, every
\* call draws a new key pair and a new nonce from the random source (two
\* draws a call) and no two results share their iv or their pubkey.
C11_FreshKeyAndNonce ==
    fn = "encrypt_command" =>
        /\ os.rng = Idle.os.rng + 2 * Len(ret.val)
        /\ \A i, j \in 1..Len(ret.val) :
              i < j =>
                  /\ Field(ret.val[i].out, <<105, 118>>)
                        # Field(ret.val[j].out, <<105, 118>>)
                  /\ Field(ret.val[i].out, <<112, 117, 98, 107, 101, 121>>)
                        # Field(ret.val[j].out, <<112, 117, 98, 107, 101, 121>>)

\* C11, reached: the same cleartext encrypted twice in a row.
C11_SameCleartextTwice ==
    /\ fn = "encrypt_command"
    /\ Len(ret.val) >= 2
    /\ ret.val[1].payload = ret.val[2].payload
    /\ ret.val[1].out # ret.val[2].out

\* C12: every encrypt_command result is an object with exactly the five keys
\* encrypted, iv, pubkey, tag and version, each a non-empty string; iv
\* encodes 12 bytes, tag the last 16 bytes of the cipher output, pubkey 32
\* bytes and encrypted the cipher output without those 16 bytes (as many
\* bytes as the cleartext, which it opens to).
C12_EnvelopeComplete ==
    fn = "encrypt_command" =>
        \A n \in 1..Len(ret.val) :
            LET out == ret.val[n].out
                Shape(o) ==
                    /\ Len(o.iv) = 12
                    /\ Len(o.tag) = 16
                    /\ Len(o.pubkey) = 32
                    /\ o.cleartext = SerValue(ret.val[n].payload)
                    /\ o.tag_ok
            IN  /\ out.t = "obj"
                /\ [i \in 1..Len(out.o) |-> out.o[i].k]
                      = <<<<101, 110, 99, 114, 121, 112, 116, 101, 100>>,
                          <<105, 118>>, <<112, 117, 98, 107, 101, 121>>,
                          <<116, 97, 103>>, <<118, 101, 114, 115, 105, 111, 110>>>>
                /\ \A i \in 1..Len(out.o) :
                      out.o[i].v.t = "str" /\ out.o[i].v.s # <<>>
                /\ \A i \in 1..Len(out.o) : IsSome(base85_decode(out.o[i].v.s))
                      \/ out.o[i].k = <<118, 101, 114, 115, 105, 111, 110>>
                /\ Shape(Opened(out, arg.self.kitty_public_key))

\* C12, reached: the envelope of the payload of encryption.rs:225.
C12_EnvelopeOfTestPayload ==
    /\ fn = "encrypt_command"
    /\ Len(ret.val) = 1
    /\ ret.val[1].payload.t = "obj"
    /\ Len(ret.val[1].payload.o) = 3
    /\ Len(ret.val[1].out.o) = 5

\* The cleartext inside the payload of an encrypted message, as a JSON value.
Cleartext(message, kitty_public_key) ==
    ToValue(Unwrap(ParseJson(
        Opened(Unwrap(message.payload), kitty_public_key).cleartext)))

\* C13: whenever the Kitty has an encryptor and a password, the cleartext
\* that encrypt_command hands to the Encryptor is an object holding the
\* configured password under "password" and an integer under "timestamp",
\* whatever the payload of the message was (none, an object, or another
\* value).
C13_AuthInjected ==
    (/\ fn = "Kitty_encrypt_command"
     /\ IsSome(arg.self.encryptor)
     /\ IsSome(arg.self.password)) =>
        LET Authenticated(v) ==
                /\ v.t = "obj"
                /\ MapHas(v.o, <<112, 97, 115, 115, 119, 111, 114, 100>>)
                /\ MapGet(v.o, <<112, 97, 115, 115, 119, 111, 114, 100>>)
                      = JStr(Unwrap(arg.self.password))
                /\ MapHas(v.o, <<116, 105, 109, 101, 115, 116, 97, 109, 112>>)
                /\ MapGet(v.o, <<116, 105, 109, 101, 115, 116, 97, 109, 112>>).t = "num"
        IN  Authenticated(Cleartext(ret.val, Unwrap(arg.self.encryptor).kitty_public_key))

\* C13, reached: an array payload encrypted as it was, with no password and
\* no timestamp in it.
C13_ArrayEncryptedBare ==
    /\ fn = "Kitty_encrypt_command"
    /\ IsSome(arg.self.encryptor)
    /\ IsSome(arg.self.password)
    /\ arg.message.payload = Some(JArr(<<JNum(1)>>))
    /\ Cleartext(ret.val, Unwrap(arg.self.encryptor).kitty_public_key)
          = JArr(<<JNum(1)>>)

\* C13 for the payloads it holds for: none or an object.
C13_ObjectAuthInjected ==
    (/\ fn = "Kitty_encrypt_command"
     /\ IsSome(arg.self.encryptor)
     /\ IsSome(arg.self.password)
     /\ (IsNone(arg.message.payload) \/ Unwrap(arg.message.payload).t = "obj")) =>
        LET v == Cleartext(ret.val, Unwrap(arg.self.encryptor).kitty_public_key)
        IN  /\ v.t = "obj"
            /\ MapGet(v.o, <<112, 97, 115, 115, 119, 111, 114, 100>>)
                  = JStr(Unwrap(arg.self.password))
            /\ MapGet(v.o, <<116, 105, 109, 101, 115, 116, 97, 109, 112>>)
                  = JNum(Idle.os.now)

\* What C15 says of new_with_public_key given key string key_str (the one
\* supplied, or else the value of KITTY_PUBLIC_KEY) and its result r: Ok with
\* the first 32 decoded bytes if the string has the prefix "1:", the rest
\* decodes and gives 32 bytes or more; else InvalidPublicKey without the
\* prefix or without a decoding, and PublicKeyTooShort only after both.
C15_Judged(key_str, r) ==
    LET prefixed == StartsWith(key_str, <<49, 58>>)
        decoded == base85_decode(SubSeq(key_str, 3, Len(key_str)))
    IN  IF ~prefixed \/ IsNone(decoded)
            THEN r = Err("EncryptionError", "InvalidPublicKey")
        ELSE IF Len(Unwrap(decoded)) < 32
            THEN r = Err("EncryptionError", "PublicKeyTooShort")
        ELSE r = Ok([kitty_public_key |-> SubSeq(Unwrap(decoded), 1, 32)])

\* C15: new_with_public_key judges the key string it is given, and without
\* one the value of KITTY_PUBLIC_KEY if that is present, by prefix, decoding
\* and length in that order; a present KITTY_PUBLIC_KEY is never passed over
\* for the key file.
C15_KeyStringChecked ==
    fn = "new_with_public_key" =>
        IF IsSome(arg.public_key) THEN C15_Judged(Unwrap(arg.public_key), ret)
        ELSE IsSome(arg.env.KITTY_PUBLIC_KEY) =>
                C15_Judged(Unwrap(arg.env.KITTY_PUBLIC_KEY), ret)

\* C15, reached: KITTY_PUBLIC_KEY is present, is not Unicode, and the key is
\* the key file's.
C15_FellThroughToKeyFile ==
    /\ fn = "new_with_public_key"
    /\ IsNone(arg.public_key)
    /\ IsSome(arg.env.KITTY_PUBLIC_KEY)
    /\ ~Utf8Valid(Unwrap(arg.env.KITTY_PUBLIC_KEY))
    /\ IsSome(arg.env.key_file)
    /\ ret = Ok([kitty_public_key |-> Unwrap(arg.env.key_file)])

\* C15 for the values of KITTY_PUBLIC_KEY it holds for: those that are Unicode.
C15_UnicodeKeyStringChecked ==
    (/\ fn = "new_with_public_key"
     /\ IsNone(arg.public_key)
     /\ IsSome(arg.env.KITTY_PUBLIC_KEY)
     /\ Utf8Valid(Unwrap(arg.env.KITTY_PUBLIC_KEY))) =>
        C15_Judged(Unwrap(arg.env.KITTY_PUBLIC_KEY), ret)

\* The numbers of a version joined with dots.
RECURSIVE Dotted(_)
Dotted(version) ==
    IF Len(version) = 0 THEN <<>>
    ELSE IF Len(version) = 1 THEN Digits(version[1])
    ELSE Digits(version[1]) \o <<46>> \o Dotted(Tail(version))

\* C23: the version string of the encrypted envelope is the version of the
\* message that is sent, its numbers joined with dots.
C23_EnvelopeVersion ==
    (/\ fn = "Kitty_encrypt_command"
     /\ IsSome(arg.self.encryptor)
     /\ IsSome(arg.self.password)) =>
        Field(Unwrap(ret.val.payload), <<118, 101, 114, 115, 105, 111, 110>>)
            = Dotted(arg.message.version)

\* C23, reached: a message of version [0,14,2] in an envelope of version
\* "0.43.1".
C23_OtherVersionSameTag ==
    /\ fn = "Kitty_encrypt_command"
    /\ IsSome(arg.self.encryptor)
    /\ IsSome(arg.self.password)
    /\ arg.message.version = <<0, 14, 2>>
    /\ ret.val.version = <<0, 14, 2>>
    /\ Field(Unwrap(ret.val.payload), <<118, 101, 114, 115, 105, 111, 110>>)
            = <<48, 46, 52, 51, 46, 49>>

\* What one opening of the payload of a frame gives, for the client that
\* wrote the frame.
OpenedOnce(self, data) ==
    Cleartext([payload |-> FramePayload(data)], Unwrap(self.encryptor).kitty_public_key)

\* v is an encrypted envelope, with or without more fields.
IsEnvelope(v) ==
    /\ v.t = "obj"
    /\ MapHas(v.o, <<101, 110, 99, 114, 121, 112, 116, 101, 100>>)
    /\ MapHas(v.o, <<105, 118>>)
    /\ MapHas(v.o, <<112, 117, 98, 107, 101, 121>>)

\* C26 for the frames of the calls in hows: with a password, the payload of
\* every frame opens, once, to a cleartext that is no encrypted envelope, and
\* for a message without a payload or with an object as payload to that
\* object with the password and a timestamp added.
C26_Once(hows) ==
    (fn \in hows /\ IsSome(arg.builder.password)) =>
        \A i \in 1..Len(ret.val.frames) :
            LET Plain(payload, v) ==
                    /\ ~IsEnvelope(v)
                    /\ (IsNone(payload) \/ Unwrap(payload).t = "obj") =>
                        \E t \in Idle.os.now..(Idle.os.now + 1) :
                            v = JObj(MapInsert(MapInsert(
                                    IF IsNone(payload) THEN <<>> ELSE Unwrap(payload).o,
                                    <<112, 97, 115, 115, 119, 111, 114, 100>>,
                                    JStr(Unwrap(arg.builder.password))),
                                    <<116, 105, 109, 101, 115, 116, 97, 109, 112>>,
                                    JNum(t)))
            IN  Plain(ret.val.message.payload,
                      OpenedOnce(ret.val.self, ret.val.frames[i]))

\* C26: with encryption configured the payload of every frame written by
\* send_all (and so by execute_all and send_command), as of every frame
\* written by send, is the cleartext with password and timestamp encrypted
\* once: never an envelope encrypted again.
C26_EncryptedOnce == C26_Once({"send", "send_all"})

\* C26, reached: a frame of send_all opens to an envelope with a password and
\* a timestamp beside it, and that envelope opens to the cleartext.
C26_EnvelopeInEnvelope ==
    /\ fn = "send_all"
    /\ IsSome(arg.builder.password)
    /\ IsNone(ret.val.message.payload)
    /\ IsEnvelope(OpenedOnce(ret.val.self, ret.val.frames[1]))
    /\ MapHas(OpenedOnce(ret.val.self, ret.val.frames[1]).o,
              <<116, 105, 109, 101, 115, 116, 97, 109, 112>>)
    /\ ~IsEnvelope(Cleartext([payload |-> Some(OpenedOnce(ret.val.self,
                                                          ret.val.frames[1]))],
                             Unwrap(ret.val.self.encryptor).kitty_public_key))

\* C26 for send itself, and so for execute: one encryption.
C26_SendEncryptsOnce == C26_Once({"send"})

\* The lengths of the top-level string fields of the payload of a frame.
PayloadStringLens(data) ==
    LET Of(p) == IF IsNone(p) \/ Unwrap(p).t # "obj" THEN {}
                 ELSE {Len(Unwrap(p).o[i].v.s) :
                        i \in {j \in 1..Len(Unwrap(p).o) : Unwrap(p).o[j].v.t = "str"}}
    IN  Of(FramePayload(data))

\* C22 for the clients for which encrypts is whether they encrypt: no frame
\* that execute_all (send_all) has written carries a payload with a
\* top-level string of more than MAX_CHUNK_SIZE bytes.  (A frame is looked at
\* where its write has just returned.)
C22_Within(encrypts) ==
    (/\ call.op = "execute_all"
     /\ LastOp[1] \in {"write", "receive"}
     /\ Len(sock.wire) > 0
     /\ (Tick(kitty, Idle.os) # Idle.os) \in encrypts) =>
        \A n \in PayloadStringLens(sock.wire[Len(sock.wire)]) : n <= MAX_CHUNK_SIZE

\* C22: every frame send_all writes carries a payload without a top-level
\* string longer than MAX_CHUNK_SIZE, with encryption and without.
C22_FieldsWithinLimit == C22_Within({TRUE, FALSE})

\* C22, reached: with encryption, the frame of the first chunk of a text of
\* MAX_CHUNK_SIZE + 1 bytes is written, and its payload holds a string (the
\* field encrypted) longer than MAX_CHUNK_SIZE.
C22_EncryptedFieldOversized ==
    /\ call.op = "execute_all"
    /\ LastOp = <<"write", "ok">>
    /\ Len(sock.wire) = 1
    /\ IsSome(kitty.encryptor)
    /\ needs_streaming(call.msg)
    /\ \E n \in PayloadStringLens(sock.wire[1]) : n > MAX_CHUNK_SIZE

\* C22 without encryption, for the ASCII texts of the requests.
C22_PlainWithinLimit == C22_Within({FALSE})

-----------------------------------------------------------------------------
(* Properties of generate_unique_id (SpecIds) *)

\* The id that the first call of the process returned.
C16_FirstId == generate_unique_id(1).id

\* C16: any two calls of generate_unique_id in one process return different
\* ids: no id is returned twice by the calls of the two threads, and none of
\* them is the id the first call of the process returned, unless it is that
\* call.
C16_IdsDistinct ==
    LET Calls == {<<t, i>> : t \in Threads, i \in 1..MaxIds}
        Made == {c \in Calls : c[2] <= Len(ret[c[1]])}
    IN  /\ \A c, d \in Made : c # d => ret[c[1]][c[2]] # ret[d[1]][d[2]]
        /\ arg.start # 1 => \A c \in Made : ret[c[1]][c[2]] # C16_FirstId

\* C16, reached: the counter has wrapped around, and a call returns "1" as
\* the first call of the process did.
C16_FirstIdAgain ==
    /\ arg.start = -1
    /\ \E t \in Threads : \E i \in 1..Len(ret[t]) : ret[t][i] = <<49>>

\* C16 before the counter wraps around: the ids of concurrent calls differ
\* from each other.
C16_DistinctBeforeWrap ==
    arg.start # -1 =>
        \A t, u \in Threads : \A i \in 1..Len(ret[t]) : \A j \in 1..Len(ret[u]) :
            (t # u \/ i # j) => ret[t][i] # ret[u][j]

-----------------------------------------------------------------------------
(* Properties of the life of a connection (SpecLifecycle) *)

\* Call i of the trace is a send or a receive.
IsIo(i) == trace[i].op \in {"send", "receive"}

\* C17, the part about a reconnect that succeeds: the socket the client had
\* is shut down, the client holds the new socket, and no later send or
\* receive is on the old one.
C17_SuccessReplaces ==
    \A i \in 1..Len(trace) :
        (trace[i].op = "reconnect" /\ trace[i].socket # 0) =>
            /\ trace[i].socket \in sockets.shut
            /\ trace[i].result = "ok" =>
                /\ \A j \in (i + 1)..Len(trace) :
                        IsIo(j) => trace[j].socket # trace[i].socket
                /\ i = Len(trace) =>
                        /\ ret.kind = "ok"
                        /\ kitty.stream = Some(sockets.opened)
                        /\ sockets.opened \notin sockets.shut

\* C17: reconnect shuts the socket down and then connects; if that succeeds
\* the client holds the new socket and later calls never use the old one; if
\* it fails reconnect returns the error of the connect, and no later send or
\* receive succeeds unless a reconnect has succeeded in between.
C17_ReconnectOrUnusable ==
    /\ C17_SuccessReplaces
    /\ \A i \in 1..Len(trace) :
        (trace[i].op = "reconnect" /\ trace[i].result # "ok") =>
            /\ i = Len(trace) =>
                    ret = Err("ConnectionError",
                              IF trace[i].result = "timeout" THEN "TimeoutError"
                              ELSE "ConnectionFailed")
            /\ \A j \in (i + 1)..Len(trace) :
                    (IsIo(j) /\ trace[j].result = "ok") =>
                        \E k \in (i + 1)..(j - 1) :
                            trace[k].op = "reconnect" /\ trace[k].result = "ok"

\* C17, reached: the reconnect of a KittyClient fails, and the send after it
\* connects a socket of its own and succeeds.
C17_SendAfterFailedReconnect ==
    /\ kitty.kind = "KittyClient"
    /\ Len(trace) = 2
    /\ trace[1] = [op |-> "reconnect", socket |-> 1, result |-> "refused"]
    /\ trace[2] = [op |-> "send", socket |-> 2, result |-> "ok"]
    /\ kitty.stream = Some(2)

\* C18: after a send or a receive has failed with an io::Error or a timeout
\* the client is disconnected: it does not hold the socket of that call any
\* more, and no later send or receive is on that socket.
C18_FailureDisconnects ==
    \A i \in 1..Len(trace) :
        (IsIo(i) /\ trace[i].result \in {"timeout", "io"}) =>
            /\ \A j \in (i + 1)..Len(trace) :
                    IsIo(j) => trace[j].socket # trace[i].socket
            /\ i = Len(trace) => kitty.stream # Some(trace[i].socket)

\* C18, reached: a send times out, and the next send is written to the same
\* socket, which the client still holds.
C18_SameSocketAfterTimeout ==
    /\ Len(trace) = 2
    /\ trace[1] = [op |-> "send", socket |-> 1, result |-> "timeout"]
    /\ trace[2] = [op |-> "send", socket |-> 1, result |-> "ok"]
    /\ kitty.stream = Some(1)

\* C18, the transitions it holds for: a KittyClient holds no socket after
\* close or after a reconnect that failed, and a client holds a socket never
\* shut down after a reconnect that succeeded.
C18_CloseDisconnects ==
    trace # <<>> =>
        LET last == trace[Len(trace)]
        IN  /\ (kitty.kind = "KittyClient" /\ last.op = "close") => IsNone(kitty.stream)
            /\ (kitty.kind = "KittyClient" /\ last.op = "reconnect"
                    /\ last.result # "ok") => IsNone(kitty.stream)
            /\ (last.op = "reconnect" /\ last.result = "ok") =>
                    /\ IsSome(kitty.stream)
                    /\ Unwrap(kitty.stream) \notin sockets.shut

\* C28: after close on a KittyClient, until reconnect is called, every send
\* and receive fails with a connection error and is on no socket: none is
\* connected for it.
C28_ClosedStaysClosed ==
    kitty.kind = "KittyClient" =>
        \A i \in 1..Len(trace) : \A j \in (i + 1)..Len(trace) :
            (/\ trace[i].op = "close"
             /\ IsIo(j)
             /\ \A k \in (i + 1)..(j - 1) : trace[k].op # "reconnect") =>
                /\ trace[j].result \in {"closed", "timeout", "refused"}
                /\ trace[j].socket = 0

\* C28, reached: a KittyClient is closed, and the send after it connects a
\* second socket and writes to it.
C28_SendAfterCloseConnects ==
    /\ kitty.kind = "KittyClient"
    /\ Len(trace) = 2
    /\ trace[1] = [op |-> "close", socket |-> 1, result |-> "ok"]
    /\ trace[2] = [op |-> "send", socket |-> 2, result |-> "ok"]
    /\ sockets.opened = 2
    /\ kitty.stream = Some(2)

\* C28 for receive: on a closed KittyClient it returns ConnectionClosed and
\* connects nothing.
C28_ReceiveAfterClose ==
    (/\ kitty.kind = "KittyClient"
     /\ Len(trace) >= 2
     /\ trace[Len(trace) - 1].op = "close"
     /\ trace[Len(trace)].op = "receive") =>
        /\ ret = Err("ConnectionError", "ConnectionClosed")
        /\ trace[Len(trace)].socket = 0
        /\ IsNone(kitty.stream)

-----------------------------------------------------------------------------
(* Properties of the ConnectionPool (SpecPool) *)

\* C19: the pool never holds more than max_size idle clients; no client is
\* idle in the pool twice, idle in the pool and held by a caller, or held by
\* two callers; and the client acquire has just returned is held by its
\* caller only.
C19_PoolBounded ==
    LET n == Len(pool.connections)
        Idles(obj) == {i \in 1..n : pool.connections[i].obj = obj}
        Holders(obj) == {c \in DOMAIN call : \E x \in call[c] : x.obj = obj}
    IN  /\ n <= pool.max_size
        /\ \A obj \in 1..sockets.opened :
              /\ Cardinality(Idles(obj)) + Cardinality(Holders(obj)) <= 1
              /\ \A c \in DOMAIN call :
                    Cardinality({x \in call[c] : x.obj = obj}) <= 1
        /\ (fn = "acquire" /\ ret.kind = "ok") =>
              /\ Idles(ret.val.obj) = {}
              /\ Cardinality(Holders(ret.val.obj)) = 1

\* C19, reached: a release into a full pool, which drops the client.
C19_ReleaseIntoFullPool ==
    /\ fn = "release"
    /\ pool.max_size = 1
    /\ Len(pool.connections) = 1
    /\ trace # <<>>
    /\ trace[1].result = "dropped"
    /\ pool.connections[1].obj # trace[1].obj
-----------------------------------------------------------------------------
(* Claims about the replies of several calls                                 *)

\* The call that has ended is an execute or execute_all that read something.
ExecuteRead ==
    /\ call.pc = "done"
    /\ call.op \in {"execute", "execute_all"}
    /\ trace # <<>>
    /\ trace[Len(trace)] = <<"read", "data">>

\* C27: the response an execute or execute_all returns is the reply to the
\* request of that same call, whatever calls came before, and its read takes
\* the bytes of that reply and of no other.
C27_ReplyToOwnRequest ==
    ExecuteRead =>
        /\ call.buffer = ReplyTo(call.msg)
        /\ call.ret = KittyResponse_decode(ReplyTo(call.msg))

\* C27, reached: the second call, an execute, returns the reply to the first,
\* whose receive had timed out.
C27_ReplyToEarlierRequest ==
    /\ ExecuteRead
    /\ call.msg = 2
    /\ call.ret = KittyResponse_decode(ReplyTo(1))
    /\ \E j \in 1..Len(trace) : trace[j] = <<"read", "timeout">>

\* Every reply to an earlier request has been read by the call that made it.
EarlierRepliesRead ==
    /\ \A j \in 1..Len(trace) : trace[j] # <<"read", "timeout">>
    /\ \A j \in 1..Len(trace) : trace[j][1] = "send_command" => trace[j][3]

\* The claim holds for the calls before which nothing was left unread.
C27_ReplyWhenNothingLeft ==
    (ExecuteRead /\ EarlierRepliesRead) =>
        /\ call.buffer = ReplyTo(call.msg)
        /\ call.ret = KittyResponse_decode(ReplyTo(call.msg))
-----------------------------------------------------------------------------
(* Claims about kitty-pubkey-db                                              *)

\* No invocation is under way.
Quiet == \A c \in Invocations : call[c].pc = "idle"

\* The entries of completed adds for pid, in the order the adds returned.
Added(pid) ==
    LET OfPid(entry) == entry.pid = pid
    IN  SelectSeq(trace, OfPid)

\* The entry is a line of the database file.
InDb(entry) ==
    IsSome(os.db) /\ \E i \in 1..Len(Unwrap(os.db)) : Unwrap(os.db)[i] = entry

\* C30: once the invocations have returned, however add and cleanup have run
\* together, every entry of a completed add for a process still running is in
\* the database file, and get for that process prints a key added with the
\* greatest timestamp.
C30_AddedEntryKept ==
    Quiet =>
        \A pid \in os.running :
            /\ \A j \in 1..Len(Added(pid)) : InDb(Added(pid)[j])
            /\ Added(pid) # <<>> =>
                \E j \in 1..Len(Added(pid)) :
                    /\ get(os.db, pid).stdout = Some(Added(pid)[j].pubkey)
                    /\ \A i \in 1..Len(Added(pid)) :
                            Added(pid)[i].timestamp <= Added(pid)[j].timestamp

\* C30, reached: the invocations have returned, an add for a running process
\* has completed while a cleanup ran, and its entry is not in the file.
C30_EntryLostToCleanup ==
    /\ Quiet
    /\ \E j \in 1..Len(trace) :
            /\ trace[j].pid \in os.running
            /\ ~InDb(trace[j])
            /\ get(os.db, trace[j].pid).code = 1

=============================================================================
